---- MODULE Spec2Model ----
(***************************************************************************)
(* fiwia gen_asm.py: the generator of fixed-width multi-precision integer  *)
(* routines for x86-64, and the machine the generated code runs on.        *)
(*                                                                         *)
(* The register store and the two emitters are operators on an emitter     *)
(* record, one per method of gen_asm.py.  A routine template is the list   *)
(* of the calls it makes on its emitter.  The instruction list a template  *)
(* emits is then run on a model of the x86-64 integer unit whose limbs are *)
(* WordBits wide instead of 64.                                            *)
(***************************************************************************)
EXTENDS Integers, Sequences, FiniteSets, TLC

\* ---------------------------------------------------------------- bounds

\* log2 of the limb width of the modelled machine (6 on x86-64)
LogWordBits == 2

\* largest limb count n a routine is generated for
MaxN == 9

WordBits == 2 ^ LogWordBits

\* number of values of a limb
Base == 2 ^ WordBits

\* ------------------------------------------------------ small utilities

Min(x, y) == IF x < y THEN x ELSE y

\* the sequences of ss joined, by halves
RECURSIVE Flatten(_)
Flatten(ss) ==
    IF Len(ss) = 0 THEN <<>>
    ELSE IF Len(ss) = 1 THEN ss[1]
    ELSE LET half == Len(ss) \div 2
         IN  Flatten(SubSeq(ss, 1, half)) \o Flatten(SubSeq(ss, half + 1, Len(ss)))

\* range(n)
Range0(n) == 0 .. (n - 1)

RECURSIVE InsertSorted(_, _)
InsertSorted(s, x) ==
    IF Len(s) = 0 THEN <<x>>
    ELSE IF x < Head(s) THEN <<x>> \o s
    ELSE <<Head(s)>> \o InsertSorted(Tail(s), x)

RECURSIVE SortAsc(_)
SortAsc(s) == IF Len(s) = 0 THEN <<>> ELSE InsertSorted(SortAsc(Tail(s)), Head(s))

RECURSIVE RemoveFirst(_, _)
RemoveFirst(s, x) ==
    IF Len(s) = 0 THEN <<>>
    ELSE IF Head(s) = x THEN Tail(s)
    ELSE <<Head(s)>> \o RemoveFirst(Tail(s), x)

SeqToSet(s) == { s[i] : i \in 1 .. Len(s) }

\* ----------------------------------------------------- register catalog

SCRATCH_REGS == << "rax", "rdi", "rsi", "rdx", "rcx", "r8", "r9", "r10", "r11" >>

CALLEE_SAVED_REGS == << "rbx", "r12", "r13", "r14", "r15" >>

ALL_REGS == SCRATCH_REGS \o CALLEE_SAVED_REGS

SYSV_ABI_ARG_REGS == << "rdi", "rsi", "rdx", "rcx", "r8", "r9" >>

\* RegList.name_by_index / RegList.index_by_name, with Python's 0-based indices
name_by_index(list, index) == list[index + 1]

index_by_name(list, name) == (CHOOSE i \in 1 .. Len(list) : list[i] = name) - 1

REG_NAMES_TO_LETTERS ==
    [ name \in {"rax", "rbx", "rcx", "rdx", "rsi", "rdi"} |->
        CASE name = "rax" -> "a"
          [] name = "rbx" -> "b"
          [] name = "rcx" -> "c"
          [] name = "rdx" -> "d"
          [] name = "rsi" -> "S"
          [] name = "rdi" -> "D" ]

\* -------------------------------------------------------------- operands

\* RealReg(index): a register of ALL_REGS; FakeReg(keyword): a placeholder
RealReg(index) == [real |-> TRUE, index |-> index, keyword |-> ""]

FakeReg(keyword) == [real |-> FALSE, index |-> 0 - 1, keyword |-> keyword]

IsRealReg(reg) == reg.real

\* str(reg) without the leading % or ![ ]: the name an instruction refers to
RegName(reg) == IF reg.real THEN name_by_index(ALL_REGS, reg.index) ELSE reg.keyword

PointerReg(reg, offset) == [reg |-> reg, offset |-> offset]

displace(ptr, offset) == [reg |-> ptr.reg, offset |-> ptr.offset + offset]

\* An operand of an emitted instruction: a register, a memory cell
\* offset limbs after the address in a register, or an immediate.
NoReg == FakeReg("")

OpReg(reg) == [k |-> "reg", reg |-> reg, off |-> 0, v |-> 0]

OpMem(ptr) == [k |-> "mem", reg |-> ptr.reg, off |-> ptr.offset, v |-> 0]

OpImm(v) == [k |-> "imm", reg |-> NoReg, off |-> 0, v |-> v]

OpNone == [k |-> "none", reg |-> NoReg, off |-> 0, v |-> 0]

\* an instruction line, operands in AT&T order (destination last)
Ins0(op) == [op |-> op, a |-> OpNone, b |-> OpNone, c |-> OpNone]

Ins1(op, a) == [op |-> op, a |-> a, b |-> OpNone, c |-> OpNone]

Ins2(op, a, b) == [op |-> op, a |-> a, b |-> b, c |-> OpNone]

Ins3(op, a, b, c) == [op |-> op, a |-> a, b |-> b, c |-> c]

\* ------------------------------------------------------- register store

\* the emitter as it would be if the pool were made of ALL_REGS
NewEmitterAllRegs(kind, label_counter) ==
    [ kind |-> kind,
      free_indices |-> [ i \in 1 .. Len(ALL_REGS) |-> i - 1 ],
      writes |-> {},
      fixed_regs |-> <<>>,
      arg_map |-> SYSV_ABI_ARG_REGS,
      args |-> <<>>,
      retval_set |-> FALSE,
      retval |-> "",
      retval_earlyclobber |-> FALSE,
      needs_zero_input |-> FALSE,
      label_counter |-> label_counter,
      out |-> <<>>,
      err |-> "" ]

\* RegStore.__init__ with the default list, as the fields of an emitter
NewEmitter(kind, label_counter) ==
    [ kind |-> kind,
      free_indices |-> [ i \in 1 .. Len(SCRATCH_REGS) |-> index_by_name(ALL_REGS, SCRATCH_REGS[i]) ],
      writes |-> {},
      fixed_regs |-> <<>>,
      arg_map |-> SYSV_ABI_ARG_REGS,
      args |-> <<>>,
      retval_set |-> FALSE,
      retval |-> "",
      retval_earlyclobber |-> FALSE,
      needs_zero_input |-> FALSE,
      label_counter |-> label_counter,
      out |-> <<>>,
      err |-> "" ]

Raise(e, what) == IF e.err = "" THEN [e EXCEPT !.err = what] ELSE e

WithReg(e, reg) == [e |-> e, r |-> reg]

\* _set_reg_mode as it would be if a write were never recorded
_set_reg_mode_unrecorded(e, reg, write) == e

_set_reg_mode(e, reg, write) ==
    IF write THEN [e EXCEPT !.writes = @ \cup {reg.index}] ELSE e

set_mode_by_name(e, reg_name, write) ==
    IF write THEN [e EXCEPT !.writes = @ \cup {index_by_name(ALL_REGS, reg_name)}] ELSE e

\* RegStore.take: pops the last free index
take(e, write) ==
    IF Len(e.free_indices) = 0
    THEN WithReg(Raise(e, "NoVacantReg"), RealReg(0))
    ELSE LET index == e.free_indices[Len(e.free_indices)]
             e1 == [e EXCEPT !.free_indices = SubSeq(@, 1, Len(@) - 1)]
         IN  WithReg(_set_reg_mode(e1, RealReg(index), write), RealReg(index))

\* RegStore.untake as it would be without the sort
untake_unsorted(e, reg) ==
    IF ~ reg.real
    THEN Raise(e, "AttributeError")
    ELSE [e EXCEPT !.free_indices = Append(@, reg.index)]

\* RegStore.untake: append, then sort
untake(e, reg) ==
    IF ~ reg.real
    THEN Raise(e, "AttributeError")
    ELSE [e EXCEPT !.free_indices = SortAsc(Append(@, reg.index))]

take_by_index(e, index, write) ==
    IF index \notin SeqToSet(e.free_indices)
    THEN WithReg(Raise(e, "ValueError: not free"), RealReg(index))
    ELSE LET e1 == [e EXCEPT !.free_indices = RemoveFirst(@, index)]
         IN  WithReg(_set_reg_mode(e1, RealReg(index), write), RealReg(index))

take_by_name(e, name, write) ==
    LET t == take_by_index(e, index_by_name(ALL_REGS, name), write)
    IN  WithReg(_set_reg_mode(t.e, t.r, write), t.r)

\* RegStore.clobbers
clobbers(e) == { name_by_index(ALL_REGS, index) : index \in e.writes }

\* ------------------------------------------------------------- emitters

IsInline(e) == e.kind = "inline"

\* Emitter.emit: one more line of output
emit(e, ins) == [e EXCEPT !.out = Append(@, ins)]

emit_all(e, inss) == [e EXCEPT !.out = @ \o inss]

add_fixed_reg(e, reg_name) ==
    IF IsInline(e) THEN e ELSE [e EXCEPT !.fixed_regs = Append(@, reg_name)]

\* SysvAbiFunctionEmitter.take_zero_reg / InlineAsmEmitter.take_zero_reg
take_zero_reg(e) ==
    IF IsInline(e)
    THEN WithReg([e EXCEPT !.needs_zero_input = TRUE], FakeReg("zero"))
    ELSE LET t == take(e, TRUE)
         IN  WithReg(emit(t.e, Ins2("xorl", OpReg(t.r), OpReg(t.r))), t.r)

\* SysvAbiFunctionEmitter.set_nargs: the loop over the arguments
RECURSIVE set_nargs_loop(_, _, _, _)
set_nargs_loop(e, i, nargs, regs_taken) ==
    IF i >= nargs
    THEN [e |-> e, regs_taken |-> regs_taken]
    ELSE LET reg_name == name_by_index(SYSV_ABI_ARG_REGS, i)
         IN  IF reg_name \in SeqToSet(e.fixed_regs)
             THEN LET t == take(e, TRUE)
                      e1 == [t.e EXCEPT !.arg_map = Append(@, RegName(t.r))]
                      e2 == emit(e1, Ins2("movq", OpReg(RealReg(index_by_name(ALL_REGS, reg_name))), OpReg(t.r)))
                  IN  set_nargs_loop(e2, i + 1, nargs, Append(regs_taken, t.r))
             ELSE set_nargs_loop([e EXCEPT !.arg_map = Append(@, reg_name)], i + 1, nargs, regs_taken)

RECURSIVE untake_all(_, _)
untake_all(e, regs) ==
    IF Len(regs) = 0 THEN e ELSE untake_all(untake(e, Head(regs)), Tail(regs))

set_nargs(e, nargs) ==
    IF IsInline(e)
    THEN e
    ELSE LET l == set_nargs_loop([e EXCEPT !.arg_map = <<>>], 0, nargs, <<>>)
         IN  untake_all(l.e, l.regs_taken)

\* take_arg_reg as it would be if the move into the destination register
\* were not emitted
take_arg_reg_unmoved(e, index, write, into_reg_name) ==
    IF IsInline(e)
    THEN IF Len(e.args) # index
         THEN WithReg(Raise(e, "ValueError: wrong order of arg indices"), FakeReg("arg"))
         ELSE WithReg([e EXCEPT !.args = Append(@, << write, into_reg_name >>)],
                      FakeReg(CASE index = 0 -> "arg0" [] index = 1 -> "arg1"
                                [] index = 2 -> "arg2" [] OTHER -> "arg3"))
    ELSE LET reg_name == e.arg_map[index + 1]
             should_move == (reg_name \in SeqToSet(e.fixed_regs))
                            \/ (into_reg_name # "" /\ into_reg_name # reg_name)
         IN  IF should_move
             THEN LET s == take_by_name(e, reg_name, FALSE)
                      d == IF into_reg_name # ""
                           THEN take_by_name(s.e, into_reg_name, TRUE)
                           ELSE take(s.e, TRUE)
                  IN  WithReg(untake(d.e, s.r), d.r)
             ELSE take_by_name(e, reg_name, write)

\* into_reg_name = "" stands for None
take_arg_reg(e, index, write, into_reg_name) ==
    IF IsInline(e)
    THEN IF Len(e.args) # index
         THEN WithReg(Raise(e, "ValueError: wrong order of arg indices"), FakeReg("arg"))
         ELSE WithReg([e EXCEPT !.args = Append(@, << write, into_reg_name >>)],
                      FakeReg(CASE index = 0 -> "arg0" [] index = 1 -> "arg1"
                                [] index = 2 -> "arg2" [] OTHER -> "arg3"))
    ELSE LET reg_name == e.arg_map[index + 1]
             should_move == (reg_name \in SeqToSet(e.fixed_regs))
                            \/ (into_reg_name # "" /\ into_reg_name # reg_name)
         IN  IF should_move
             THEN LET s == take_by_name(e, reg_name, FALSE)
                      d == IF into_reg_name # ""
                           THEN take_by_name(s.e, into_reg_name, TRUE)
                           ELSE take(s.e, TRUE)
                      e1 == emit(d.e, Ins2("movq", OpReg(s.r), OpReg(d.r)))
                  IN  WithReg(untake(e1, s.r), d.r)
             ELSE take_by_name(e, reg_name, write)

\* take_retval_reg as it would be if the early-clobber mark were never set
take_retval_reg_shared(e, may_overwrite_taken) ==
    IF IsInline(e)
    THEN WithReg([e EXCEPT !.retval_set = TRUE, !.retval = "", !.retval_earlyclobber = FALSE],
                 FakeReg("ret"))
    ELSE take_by_name(e, "rax", TRUE)

take_retval_reg(e, may_overwrite_taken) ==
    IF IsInline(e)
    THEN WithReg([e EXCEPT !.retval_set = TRUE, !.retval = "",
                           !.retval_earlyclobber = ~ may_overwrite_taken],
                 FakeReg("ret"))
    ELSE take_by_name(e, "rax", TRUE)

write_retval(e, src_reg) ==
    IF IsInline(e)
    THEN IF IsRealReg(src_reg) /\ RegName(src_reg) \in DOMAIN REG_NAMES_TO_LETTERS
         THEN [e EXCEPT !.retval_set = TRUE, !.retval = RegName(src_reg)]
         ELSE emit([e EXCEPT !.retval_set = TRUE, !.retval = ""],
                   Ins2("movq", OpReg(src_reg), OpReg(FakeReg("ret"))))
    ELSE LET e1 == set_mode_by_name(e, "rax", TRUE)
         IN  IF ~ (IsRealReg(src_reg) /\ RegName(src_reg) = "rax")
             THEN emit(e1, Ins2("movq", OpReg(src_reg), OpReg(RealReg(0))))
             ELSE e1

\* gen_label: the label is named by the counter's new value
gen_label(e) ==
    LET e1 == [e EXCEPT !.label_counter = @ + 1]
    IN  WithReg(e1, e1.label_counter)

label_here(e, label) == emit(e, Ins1("label", OpImm(label)))

\* ------------------------------------------- the statements of a template

\* A template (FUNC_*) makes calls on its emitter, one after another.  It is
\* written here as the list of those calls.  A call that returns a register
\* or a label names the local variable of the template that receives it
\* (var); the operands of an emitted line refer to registers by the names of
\* these variables, and stand for the registers they hold when the line is
\* emitted.  Locals of a helper are prefixed with the helper's name.

\* None, where a register is optional
None == ""

\* %cl: the low byte of rcx, written literally by the baseline lowering
RegCL == "%cl"

\* a label operand
OpLabel(var) == [k |-> "label", reg |-> var, off |-> 0, v |-> 0]

\* var = emitter.reg_store.take(write)
Take(var, write) == [do |-> "take", var |-> var, write |-> write]

\* var = emitter.reg_store.take_by_name(name, write)
TakeByName(var, name, write) == [do |-> "take_by_name", var |-> var, name |-> name, write |-> write]

\* emitter.reg_store.untake(var)
Untake(var) == [do |-> "untake", var |-> var]

\* emitter.add_fixed_reg(reg_name)
AddFixedReg(reg_name) == [do |-> "add_fixed_reg", reg_name |-> reg_name]

\* emitter.set_nargs(nargs)
SetNargs(nargs) == [do |-> "set_nargs", nargs |-> nargs]

\* var = emitter.take_arg_reg(index, write, into_reg_name)
TakeArgReg(var, index, write, into_reg_name) ==
    [ do |-> "take_arg_reg", var |-> var, index |-> index, write |-> write,
      into_reg_name |-> into_reg_name ]

\* var = emitter.take_retval_reg(may_overwrite_taken)
TakeRetvalReg(var, may_overwrite_taken) ==
    [do |-> "take_retval_reg", var |-> var, may_overwrite_taken |-> may_overwrite_taken]

\* emitter.write_retval(var)
WriteRetval(var) == [do |-> "write_retval", var |-> var]

\* var = emitter.take_zero_reg()
TakeZeroReg(var) == [do |-> "take_zero_reg", var |-> var]

\* var = emitter.gen_label()
GenLabel(var) == [do |-> "gen_label", var |-> var]

\* emitter.label_here(var)
LabelHere(var) == [do |-> "label_here", var |-> var]

\* emitter.emit(line) for each of the lines
Emit(lines) == [do |-> "emit", lines |-> lines]

\* raise
RaiseError(what) == [do |-> "raise", what |-> what]

\* assert str(var) == str(other)
AssertSameReg(var, other) == [do |-> "assert", var |-> var, other |-> other]

\* the locals of a template before its first statement
NoLocals == (RegCL :> RealReg(index_by_name(ALL_REGS, "rcx")))

\* an operand with the register (or label) its variable holds
BindOperand(locals, o) ==
    CASE o.k \in {"reg", "mem"} -> [o EXCEPT !.reg = locals[o.reg]]
      [] o.k = "label" -> OpImm(locals[o.reg])
      [] OTHER -> o

BindLines(locals, lines) ==
    [ i \in 1 .. Len(lines) |->
        [ op |-> lines[i].op, a |-> BindOperand(locals, lines[i].a),
          b |-> BindOperand(locals, lines[i].b), c |-> BindOperand(locals, lines[i].c) ] ]

\* s holds the emitter (s.e) and the locals of the template (s.locals);
\* t is what a call returned: the emitter after it and its result
Assign(s, var, t) == [e |-> t.e, locals |-> (var :> t.r) @@ s.locals]

\* one statement of a template, applied
Statement(s, st) ==
    CASE st.do = "take" -> Assign(s, st.var, take(s.e, st.write))
      [] st.do = "take_by_name" -> Assign(s, st.var, take_by_name(s.e, st.name, st.write))
      [] st.do = "untake" -> [s EXCEPT !.e = untake(@, s.locals[st.var])]
      [] st.do = "add_fixed_reg" -> [s EXCEPT !.e = add_fixed_reg(@, st.reg_name)]
      [] st.do = "set_nargs" -> [s EXCEPT !.e = set_nargs(@, st.nargs)]
      [] st.do = "take_arg_reg" ->
             Assign(s, st.var, take_arg_reg(s.e, st.index, st.write, st.into_reg_name))
      [] st.do = "take_retval_reg" -> Assign(s, st.var, take_retval_reg(s.e, st.may_overwrite_taken))
      [] st.do = "write_retval" -> [s EXCEPT !.e = write_retval(@, s.locals[st.var])]
      [] st.do = "take_zero_reg" -> Assign(s, st.var, take_zero_reg(s.e))
      [] st.do = "gen_label" -> Assign(s, st.var, gen_label(s.e))
      [] st.do = "label_here" -> [s EXCEPT !.e = label_here(@, s.locals[st.var])]
      [] st.do = "emit" -> [s EXCEPT !.e = emit_all(@, BindLines(s.locals, st.lines))]
      [] st.do = "raise" -> [s EXCEPT !.e = Raise(@, st.what)]
      [] st.do = "assert" ->
             IF RegName(s.locals[st.var]) = RegName(s.locals[st.other])
             THEN s
             ELSE [s EXCEPT !.e = Raise(@, "AssertionError")]

\* The statements of a template applied in order to emitter e.  An exception
\* raised by a call ends the template, as it ends the generator.
RECURSIVE Statements(_, _)
Statements(s, stmts) ==
    IF Len(stmts) = 0 \/ s.e.err # ""
    THEN s
    ELSE IF Len(stmts) = 1
         THEN Statement(s, stmts[1])
         ELSE LET half == Len(stmts) \div 2
              IN  Statements(Statements(s, SubSeq(stmts, 1, half)),
                             SubSeq(stmts, half + 1, Len(stmts)))

\* the lists body(0), ..., body(n - 1) joined
Cat(n, body(_)) == Flatten([ i \in 1 .. n |-> body(i - 1) ])

\* what a helper hands back: its statements and the register it returns
Helper(stmts, reg) == [stmts |-> stmts, r |-> reg]

\* -------------------------------------------------- multiply templates

\* mul_aux's iteration as it would be if the carry of adding the previous
\* high half were not added into the new high half
mul_aux_iter_lost_carry(i, n, undef_from, src, mulby, dst, zero, drop_last_carry, rax, rdx, reg_carry) ==
    LET drop_following_carry == drop_last_carry /\ (i + 1 = n)
    IN  (IF i # 0 THEN << Ins2("movq", OpReg(rdx), OpReg(reg_carry)) >> ELSE <<>>)
        \o << Ins2("movq", mulby, OpReg(rax)) >>
        \o (IF drop_following_carry
            THEN << Ins2("imulq", OpMem(displace(src, i)), OpReg(rax)) >>
            ELSE << Ins1("mulq", OpMem(displace(src, i))) >>)
        \o (IF i # 0 THEN << Ins2("addq", OpReg(reg_carry), OpReg(rax)) >> ELSE <<>>)
        \o (IF i >= undef_from
            THEN << Ins2("movq", OpReg(rax), OpMem(displace(dst, i))) >>
            ELSE << Ins2("addq", OpReg(rax), OpMem(displace(dst, i))) >>
                 \o (IF ~ drop_following_carry
                     THEN << Ins2("adcq", zero, OpReg(rdx)) >> ELSE <<>>))

\* mul_aux: the lines of iteration i
mul_aux_iter(i, n, undef_from, src, mulby, dst, zero, drop_last_carry, rax, rdx, reg_carry) ==
    LET drop_following_carry == drop_last_carry /\ (i + 1 = n)
    IN  (IF i # 0 THEN << Ins2("movq", OpReg(rdx), OpReg(reg_carry)) >> ELSE <<>>)
        \o << Ins2("movq", mulby, OpReg(rax)) >>
        \o (IF drop_following_carry
            THEN << Ins2("imulq", OpMem(displace(src, i)), OpReg(rax)) >>
            ELSE << Ins1("mulq", OpMem(displace(src, i))) >>)
        \o (IF i # 0
            THEN << Ins2("addq", OpReg(reg_carry), OpReg(rax)) >>
                 \o (IF ~ drop_following_carry
                     THEN << Ins2("adcq", zero, OpReg(rdx)) >> ELSE <<>>)
            ELSE <<>>)
        \o (IF i >= undef_from
            THEN << Ins2("movq", OpReg(rax), OpMem(displace(dst, i))) >>
            ELSE << Ins2("addq", OpReg(rax), OpMem(displace(dst, i))) >>
                 \o (IF ~ drop_following_carry
                     THEN << Ins2("adcq", zero, OpReg(rdx)) >> ELSE <<>>))

\* mulby and zero are operands
mul_aux(n, undef_from, src, mulby, dst, zero, drop_last_carry) ==
    LET body(i) == mul_aux_iter(i, n, undef_from, src, mulby, dst, zero, drop_last_carry,
                                "mul_aux.rax", "mul_aux.rdx", "mul_aux.reg_carry")
    IN  Helper(<< TakeByName("mul_aux.rax", "rax", TRUE),
                  TakeByName("mul_aux.rdx", "rdx", TRUE),
                  Take("mul_aux.reg_carry", TRUE),
                  Emit(Cat(n, body)),
                  Untake("mul_aux.reg_carry"),
                  Untake("mul_aux.rax") >>
               \o (IF drop_last_carry THEN << Untake("mul_aux.rdx") >> ELSE <<>>),
               IF drop_last_carry THEN None ELSE "mul_aux.rdx")

\* mul_aux_bmi2: the loop; s holds the lines so far, the rotating registers
\* and cy_meaningful
RECURSIVE mul_aux_bmi2_loop(_, _, _)
mul_aux_bmi2_loop(s, i, p) ==
    IF i >= p.n
    THEN s
    ELSE LET drop_following_carry == p.drop_last_carry /\ (i + 1 = p.n)
             cy2 == IF i # 0 THEN TRUE ELSE s.cy
             cy3 == IF i >= p.undef_from THEN cy2 ELSE TRUE
         IN  mul_aux_bmi2_loop(
                 [ lines |->
                       s.lines
                       \o << Ins3("mulxq", OpMem(displace(p.src, i)), OpReg(p.reg_lo), OpReg(s.reg_hi)) >>
                       \o (IF i # 0
                           THEN << Ins2(IF s.cy THEN "adcq" ELSE "addq", OpReg(s.reg_carry), OpReg(p.reg_lo)) >>
                           ELSE <<>>)
                       \o (IF i >= p.undef_from
                           THEN << Ins2("movq", OpReg(p.reg_lo), OpMem(displace(p.dst, i))) >>
                           ELSE (IF cy2 /\ ~ drop_following_carry
                                 THEN << Ins2("adcq", p.zero, OpReg(s.reg_hi)) >> ELSE <<>>)
                                \o << Ins2("addq", OpReg(p.reg_lo), OpMem(displace(p.dst, i))) >>),
                   reg_hi |-> s.reg_carry, reg_carry |-> s.reg_hi, cy |-> cy3 ],
                 i + 1, p)

\* mul_aux_bmi2 as it would be without the exchange of reg_hi and reg_carry
\* before the loop at odd n
mul_aux_bmi2_no_swap(n, undef_from, src, rdx, dst, zero, drop_last_carry, reg_carry) ==
    LET carry == IF reg_carry = None THEN "mul_aux_bmi2.reg_carry" ELSE reg_carry
        s == mul_aux_bmi2_loop(
                 [ lines |-> <<>>,
                   reg_hi |-> "mul_aux_bmi2.reg_hi",
                   reg_carry |-> carry,
                   cy |-> FALSE ],
                 0,
                 [ n |-> n, undef_from |-> undef_from, src |-> src, dst |-> dst, zero |-> zero,
                   drop_last_carry |-> drop_last_carry, reg_lo |-> "mul_aux_bmi2.reg_lo" ])
    IN  [ stmts |->
              (IF reg_carry = None THEN << Take("mul_aux_bmi2.reg_carry", TRUE) >> ELSE <<>>)
              \o << Take("mul_aux_bmi2.reg_lo", TRUE),
                    Take("mul_aux_bmi2.reg_hi", TRUE),
                    Emit(s.lines),
                    Untake("mul_aux_bmi2.reg_lo"),
                    Untake(s.reg_hi) >>
              \o (IF drop_last_carry THEN << Untake(s.reg_carry) >> ELSE <<>>),
          r |-> IF drop_last_carry THEN None ELSE s.reg_carry,
          cy |-> s.cy ]

\* reg_carry = None: the carry register is taken here.  The result has the
\* returned register and cy_meaningful.
mul_aux_bmi2(n, undef_from, src, rdx, dst, zero, drop_last_carry, reg_carry) ==
    LET carry == IF reg_carry = None THEN "mul_aux_bmi2.reg_carry" ELSE reg_carry
        odd == (n % 2 = 1)
        s == mul_aux_bmi2_loop(
                 [ lines |-> <<>>,
                   reg_hi |-> IF odd THEN carry ELSE "mul_aux_bmi2.reg_hi",
                   reg_carry |-> IF odd THEN "mul_aux_bmi2.reg_hi" ELSE carry,
                   cy |-> FALSE ],
                 0,
                 [ n |-> n, undef_from |-> undef_from, src |-> src, dst |-> dst, zero |-> zero,
                   drop_last_carry |-> drop_last_carry, reg_lo |-> "mul_aux_bmi2.reg_lo" ])
    IN  [ stmts |->
              (IF reg_carry = None THEN << Take("mul_aux_bmi2.reg_carry", TRUE) >> ELSE <<>>)
              \o << Take("mul_aux_bmi2.reg_lo", TRUE),
                    Take("mul_aux_bmi2.reg_hi", TRUE),
                    Emit(s.lines),
                    Untake("mul_aux_bmi2.reg_lo"),
                    Untake(s.reg_hi) >>
              \o (IF drop_last_carry THEN << Untake(s.reg_carry) >> ELSE <<>>),
          r |-> IF drop_last_carry THEN None ELSE s.reg_carry,
          cy |-> s.cy ]

\* b is the operand the multiplier is read from
mul_aux_auto(n, undef_from, src, b, dst, zero, drop_last_carry) ==
    IF n = 1
    THEN mul_aux(n, undef_from, src, b, dst, zero, drop_last_carry)
    ELSE LET result == mul_aux(n, undef_from, src, OpReg("mul_aux_auto.reg_mulby"), dst, zero,
                               drop_last_carry)
         IN  Helper(<< Take("mul_aux_auto.reg_mulby", TRUE),
                       Emit(<< Ins2("movq", b, OpReg("mul_aux_auto.reg_mulby")) >>) >>
                    \o result.stmts
                    \o << Untake("mul_aux_auto.reg_mulby") >>,
                    result.r)

\* long_mul_step as it would be if the limb above the row were always
\* accumulated, never stored
long_mul_step_accumulating(n, undef_from, src, b, dst, zero) ==
    LET last == mul_aux_auto(n, undef_from, src, b, dst, zero, FALSE)
    IN  last.stmts
        \o << Emit(<< Ins2("addq", OpReg(last.r), OpMem(displace(dst, n))) >>),
              Untake(last.r) >>

long_mul_step(n, undef_from, src, b, dst, zero) ==
    LET last == mul_aux_auto(n, undef_from, src, b, dst, zero, FALSE)
    IN  last.stmts
        \o << Emit(<< IF n >= undef_from
                      THEN Ins2("movq", OpReg(last.r), OpMem(displace(dst, n)))
                      ELSE Ins2("addq", OpReg(last.r), OpMem(displace(dst, n))) >>),
              Untake(last.r) >>

long_mul_step_bmi2(n, undef_from, src, rdx, dst, zero) ==
    LET last == mul_aux_bmi2(n, undef_from, src, rdx, dst, zero, FALSE, None)
    IN  last.stmts
        \o << Emit(IF n >= undef_from
                   THEN (IF last.cy THEN << Ins2("adcq", zero, OpReg(last.r)) >> ELSE <<>>)
                        \o << Ins2("movq", OpReg(last.r), OpMem(displace(dst, n))) >>
                   ELSE << Ins2(IF last.cy THEN "adcq" ELSE "addq",
                                OpReg(last.r), OpMem(displace(dst, n))) >>),
              Untake(last.r) >>

\* zero = '$0'
Zero == OpImm(0)

FUNC_mul(n, m) ==
    LET a == PointerReg("reg_a", 0)
        b == PointerReg("reg_b", 0)
        dst == PointerReg("reg_dst", 0)
        row(i) == long_mul_step(n, IF i # 0 THEN n ELSE 0, a, OpMem(displace(b, i)),
                                displace(dst, i), Zero)
    IN  IF n < m
        THEN << RaiseError("ValueError: expected n >= m") >>
        ELSE << AddFixedReg("rax"),
                AddFixedReg("rdx"),
                TakeArgReg("reg_a", 0, FALSE, None),
                TakeArgReg("reg_b", 1, FALSE, None),
                TakeArgReg("reg_dst", 2, FALSE, None) >>
             \o Cat(m, row)

FUNC_mul_bmi2(n, m) ==
    LET a == PointerReg("reg_a", 0)
        b == PointerReg("reg_b", 0)
        dst == PointerReg("reg_dst", 0)
        row(i) == << Emit(<< Ins2("movq", OpMem(displace(b, i)), OpReg("rdx")) >>) >>
                  \o long_mul_step_bmi2(n, IF i # 0 THEN n ELSE 0, a, "rdx", displace(dst, i), Zero)
    IN  IF n < m
        THEN << RaiseError("ValueError: expected n >= m") >>
        ELSE << AddFixedReg("rdx"),
                TakeArgReg("reg_a", 0, FALSE, None),
                TakeArgReg("reg_b", 1, FALSE, None),
                TakeArgReg("reg_dst", 2, FALSE, None),
                TakeByName("rdx", "rdx", TRUE) >>
             \o Cat(m, row)

FUNC_mul_lo(n) ==
    LET a == PointerReg("reg_a", 0)
        b == PointerReg("reg_b", 0)
        dst == PointerReg("reg_dst", 0)
        row(i) == mul_aux_auto(n - i, IF i # 0 THEN n ELSE 0, a, OpMem(displace(b, i)),
                               displace(dst, i), Zero, TRUE).stmts
    IN  << AddFixedReg("rax"),
           AddFixedReg("rdx"),
           TakeArgReg("reg_a", 0, FALSE, None),
           TakeArgReg("reg_b", 1, FALSE, None),
           TakeArgReg("reg_dst", 2, FALSE, None) >>
        \o Cat(n, row)

FUNC_mul_lo_bmi2(n) ==
    LET a == PointerReg("reg_a", 0)
        b == PointerReg("reg_b", 0)
        dst == PointerReg("reg_dst", 0)
        row(i) == << Emit(<< Ins2("movq", OpMem(displace(b, i)), OpReg("rdx")) >>) >>
                  \o mul_aux_bmi2(n - i, IF i # 0 THEN n ELSE 0, a, "rdx", displace(dst, i),
                                  Zero, TRUE, None).stmts
    IN  << AddFixedReg("rdx"),
           TakeArgReg("reg_a", 0, FALSE, None),
           TakeArgReg("reg_b", 1, FALSE, None),
           TakeArgReg("reg_dst", 2, FALSE, None),
           TakeByName("rdx", "rdx", TRUE) >>
        \o Cat(n, row)

FUNC_mul_q(n) ==
    LET src == PointerReg("reg_src", 0)
        dst == PointerReg("reg_dst", 0)
        last == mul_aux(n, 0, src, OpReg("reg_m"), dst, Zero, FALSE)
    IN  << AddFixedReg("rax"),
           AddFixedReg("rdx"),
           TakeArgReg("reg_src", 0, FALSE, None),
           TakeArgReg("reg_m", 1, FALSE, None),
           TakeArgReg("reg_dst", 2, FALSE, None) >>
        \o last.stmts
        \o << WriteRetval(last.r) >>

FUNC_mul_q_bmi2(n) ==
    LET src == PointerReg("reg_src", 0)
        dst == PointerReg("reg_dst", 0)
        last == mul_aux_bmi2(n, 0, src, "reg_m", dst, Zero, FALSE, "reg_result")
    IN  << AddFixedReg("rdx"),
           SetNargs(3),
           TakeArgReg("reg_src", 0, FALSE, None),
           TakeArgReg("reg_m", 1, FALSE, "rdx"),
           TakeArgReg("reg_dst", 2, FALSE, None),
           TakeRetvalReg("reg_result", FALSE) >>
        \o last.stmts
        \o << AssertSameReg(last.r, "reg_result") >>
        \o (IF last.cy THEN << Emit(<< Ins2("adcq", Zero, OpReg(last.r)) >>) >> ELSE <<>>)

\* the statements of FUNC_div_q before its loop
div_q_head(operation) ==
    << AddFixedReg("rax"),
       AddFixedReg("rdx"),
       TakeArgReg("reg_a", 0, FALSE, None),
       TakeArgReg("reg_m", 1, FALSE, None) >>
    \o (CASE operation = "div" -> << TakeArgReg("reg_dst", 2, FALSE, None) >>
          [] operation = "mod" -> <<>>
          [] OTHER -> << RaiseError("ValueError: operation") >>)
    \o << TakeByName("rax", "rax", TRUE),
          TakeByName("rdx", "rdx", TRUE),
          Emit(<< Ins2("xorl", OpReg("rdx"), OpReg("rdx")) >>) >>

\* FUNC_div_q as it would be if the limbs were divided from the lowest up
FUNC_div_q_ascending(n, operation) ==
    LET a == PointerReg("reg_a", 0)
        dst == PointerReg("reg_dst", 0)
        body(k) == LET i == k
                   IN  << Ins2("movq", OpMem(displace(a, i)), OpReg("rax")),
                          Ins1("divq", OpReg("reg_m")) >>
                       \o (IF operation = "div"
                           THEN << Ins2("movq", OpReg("rax"), OpMem(displace(dst, i))) >>
                           ELSE <<>>)
    IN  div_q_head(operation) \o << Emit(Cat(n, body)), WriteRetval("rdx") >>

\* operation is "div" or "mod"; k counts the iterations of reversed(range(n))
FUNC_div_q(n, operation) ==
    LET a == PointerReg("reg_a", 0)
        dst == PointerReg("reg_dst", 0)
        body(k) == LET i == n - 1 - k
                   IN  << Ins2("movq", OpMem(displace(a, i)), OpReg("rax")),
                          Ins1("divq", OpReg("reg_m")) >>
                       \o (IF operation = "div"
                           THEN << Ins2("movq", OpReg("rax"), OpMem(displace(dst, i))) >>
                           ELSE <<>>)
    IN  div_q_head(operation) \o << Emit(Cat(n, body)), WriteRetval("rdx") >>

\* ------------------------------------------------------ shift templates

\* do_shr as it would be if the baseline lowering shifted each limb alone,
\* taking no bits from the limb above
do_shr_no_donor(src, reg_dst, reg_donor, reg_count, reg_neg_count, reg_scratch, is_signed, use_bmi2) ==
    LET signed_insn == is_signed /\ reg_donor = None
    IN  IF use_bmi2
        THEN << Ins3(IF signed_insn THEN "sarxq" ELSE "shrxq", OpReg(reg_count), src, OpReg(reg_dst)) >>
             \o (IF reg_donor # None
                 THEN << Ins3("shlxq", OpReg(reg_neg_count), OpReg(reg_donor), OpReg(reg_scratch)),
                         Ins2("orq", OpReg(reg_scratch), OpReg(reg_dst)) >>
                 ELSE <<>>)
        ELSE (IF src # OpReg(reg_dst) THEN << Ins2("movq", src, OpReg(reg_dst)) >> ELSE <<>>)
             \o << Ins2(IF signed_insn THEN "sarq" ELSE "shrq", OpReg(RegCL), OpReg(reg_dst)) >>

\* src is an operand
do_shr(src, reg_dst, reg_donor, reg_count, reg_neg_count, reg_scratch, is_signed, use_bmi2) ==
    LET signed_insn == is_signed /\ reg_donor = None
    IN  IF use_bmi2
        THEN << Ins3(IF signed_insn THEN "sarxq" ELSE "shrxq", OpReg(reg_count), src, OpReg(reg_dst)) >>
             \o (IF reg_donor # None
                 THEN << Ins3("shlxq", OpReg(reg_neg_count), OpReg(reg_donor), OpReg(reg_scratch)),
                         Ins2("orq", OpReg(reg_scratch), OpReg(reg_dst)) >>
                 ELSE <<>>)
        ELSE (IF src # OpReg(reg_dst) THEN << Ins2("movq", src, OpReg(reg_dst)) >> ELSE <<>>)
             \o (IF reg_donor # None
                 THEN << Ins3("shrdq", OpReg(RegCL), OpReg(reg_donor), OpReg(reg_dst)) >>
                 ELSE << Ins2(IF signed_insn THEN "sarq" ELSE "shrq", OpReg(RegCL), OpReg(reg_dst)) >>)

\* do_shl as it would be if the BMI2 lowering shifted the donor limb by the
\* count itself, not by the negated count
do_shl_same_count(src, reg_dst, reg_donor, reg_count, reg_neg_count, reg_scratch, use_bmi2) ==
    IF use_bmi2
    THEN << Ins3("shlxq", OpReg(reg_count), src, OpReg(reg_dst)) >>
         \o (IF reg_donor # None
             THEN << Ins3("shrxq", OpReg(reg_count), OpReg(reg_donor), OpReg(reg_scratch)),
                     Ins2("orq", OpReg(reg_scratch), OpReg(reg_dst)) >>
             ELSE <<>>)
    ELSE (IF src # OpReg(reg_dst) THEN << Ins2("movq", src, OpReg(reg_dst)) >> ELSE <<>>)
         \o (IF reg_donor # None
             THEN << Ins3("shldq", OpReg(RegCL), OpReg(reg_donor), OpReg(reg_dst)) >>
             ELSE << Ins2("shlq", OpReg(RegCL), OpReg(reg_dst)) >>)

do_shl(src, reg_dst, reg_donor, reg_count, reg_neg_count, reg_scratch, use_bmi2) ==
    IF use_bmi2
    THEN << Ins3("shlxq", OpReg(reg_count), src, OpReg(reg_dst)) >>
         \o (IF reg_donor # None
             THEN << Ins3("shrxq", OpReg(reg_neg_count), OpReg(reg_donor), OpReg(reg_scratch)),
                     Ins2("orq", OpReg(reg_scratch), OpReg(reg_dst)) >>
             ELSE <<>>)
    ELSE (IF src # OpReg(reg_dst) THEN << Ins2("movq", src, OpReg(reg_dst)) >> ELSE <<>>)
         \o (IF reg_donor # None
             THEN << Ins3("shldq", OpReg(RegCL), OpReg(reg_donor), OpReg(reg_dst)) >>
             ELSE << Ins2("shlq", OpReg(RegCL), OpReg(reg_dst)) >>)

\* what FUNC_shr and FUNC_shl do before their loop: arguments, temporaries,
\* and the negated count of the BMI2 lowering
ShiftSetup(use_bmi2) ==
    (IF ~ use_bmi2 THEN << AddFixedReg("rcx") >> ELSE <<>>)
    \o << TakeArgReg("reg_a", 0, FALSE, None),
          TakeArgReg("reg_count", 1, FALSE, IF use_bmi2 THEN None ELSE "rcx"),
          TakeArgReg("reg_dst", 2, FALSE, None),
          Take("reg_tmp_1", TRUE),
          Take("reg_tmp_2", TRUE) >>
    \o (IF use_bmi2
        THEN << Take("reg_neg_count", TRUE),
                Take("reg_scratch", TRUE),
                Emit(<< Ins2("movq", OpReg("reg_count"), OpReg("reg_neg_count")),
                        Ins1("negq", OpReg("reg_neg_count")) >>) >>
        ELSE <<>>)

\* the registers reg_tmp_1 and reg_tmp_2 name in iteration k: the two swap
\* after every iteration
Tmp1(k) == IF k % 2 = 0 THEN "reg_tmp_1" ELSE "reg_tmp_2"

Tmp2(k) == IF k % 2 = 0 THEN "reg_tmp_2" ELSE "reg_tmp_1"

FUNC_shr(n, is_signed, use_bmi2) ==
    LET a == PointerReg("reg_a", 0)
        dst == PointerReg("reg_dst", 0)
        reg_neg_count == IF use_bmi2 THEN "reg_neg_count" ELSE None
        reg_scratch == IF use_bmi2 THEN "reg_scratch" ELSE None
        body(i) ==
            LET cur_src == IF i = 0 THEN OpMem(displace(a, i)) ELSE OpReg(Tmp1(i))
                cur_donor == IF i = n - 1 THEN None ELSE Tmp2(i)
            IN  (IF i = n - 1 THEN <<>>
                 ELSE << Ins2("movq", OpMem(displace(a, i + 1)), OpReg(Tmp2(i))) >>)
                \o do_shr(cur_src, Tmp1(i), cur_donor, "reg_count", reg_neg_count,
                          reg_scratch, is_signed, use_bmi2)
                \o << Ins2("movq", OpReg(Tmp1(i)), OpMem(displace(dst, i))) >>
    IN  ShiftSetup(use_bmi2) \o << Emit(Cat(n, body)) >>

\* k counts the iterations of reversed(range(n))
FUNC_shl(n, use_bmi2) ==
    LET a == PointerReg("reg_a", 0)
        dst == PointerReg("reg_dst", 0)
        reg_neg_count == IF use_bmi2 THEN "reg_neg_count" ELSE None
        reg_scratch == IF use_bmi2 THEN "reg_scratch" ELSE None
        body(k) ==
            LET i == n - 1 - k
                cur_src == IF i = n - 1 THEN OpMem(displace(a, i)) ELSE OpReg(Tmp1(k))
                cur_donor == IF i = 0 THEN None ELSE Tmp2(k)
            IN  (IF i = 0 THEN <<>>
                 ELSE << Ins2("movq", OpMem(displace(a, i - 1)), OpReg(Tmp2(k))) >>)
                \o do_shl(cur_src, Tmp1(k), cur_donor, "reg_count", reg_neg_count,
                          reg_scratch, use_bmi2)
                \o << Ins2("movq", OpReg(Tmp1(k)), OpMem(displace(dst, i))) >>
    IN  ShiftSetup(use_bmi2) \o << Emit(Cat(n, body)) >>

\* ------------------------------------------- add / subtract / negate

AORS_ADD == [ADDSUB |-> "addq", ADCSBB |-> "adcq"]

AORS_SUB == [ADDSUB |-> "subq", ADCSBB |-> "sbbq"]

FUNC_aors(n, aors) ==
    LET a == PointerReg("reg_a", 0)
        b == PointerReg("reg_b", 0)
        body(i) == << Ins2("movq", OpMem(displace(b, i)), OpReg("reg_tmp")),
                      Ins2(IF i # 0 THEN aors.ADCSBB ELSE aors.ADDSUB,
                           OpReg("reg_tmp"), OpMem(displace(a, i))) >>
    IN  << TakeArgReg("reg_a", 0, FALSE, None),
           TakeArgReg("reg_b", 1, FALSE, None),
           Take("reg_tmp", TRUE),
           Emit(Cat(n, body)),
           TakeRetvalReg("ret", TRUE),
           Emit(<< Ins2("sbbq", OpReg("ret"), OpReg("ret")) >>) >>

\* aors_masked_aux as it would be if the saved carry were not brought back
\* into the carry flag at the start of a group
aors_masked_aux_no_restore(a, b, reg_c, reg_mask, m_regs, aors, save, restore) ==
    LET load(i) == << Ins2("movq", OpMem(displace(b, i)), OpReg(m_regs[i + 1])),
                      Ins2("andq", OpReg(reg_mask), OpReg(m_regs[i + 1])) >>
        apply(i) == << Ins2(IF (~ restore) /\ (i = 0) THEN aors.ADDSUB ELSE aors.ADCSBB,
                            OpReg(m_regs[i + 1]), OpMem(displace(a, i))) >>
    IN  Cat(Len(m_regs), load)
        \o Cat(Len(m_regs), apply)
        \o (IF save THEN << Ins2("sbbq", OpReg(reg_c), OpReg(reg_c)) >> ELSE <<>>)

aors_masked_aux(a, b, reg_c, reg_mask, m_regs, aors, save, restore) ==
    LET load(i) == << Ins2("movq", OpMem(displace(b, i)), OpReg(m_regs[i + 1])),
                      Ins2("andq", OpReg(reg_mask), OpReg(m_regs[i + 1])) >>
        apply(i) == << Ins2(IF (~ restore) /\ (i = 0) THEN aors.ADDSUB ELSE aors.ADCSBB,
                            OpReg(m_regs[i + 1]), OpMem(displace(a, i))) >>
    IN  Cat(Len(m_regs), load)
        \o (IF restore THEN << Ins2("shlq", OpImm(1), OpReg(reg_c)) >> ELSE <<>>)
        \o Cat(Len(m_regs), apply)
        \o (IF save THEN << Ins2("sbbq", OpReg(reg_c), OpReg(reg_c)) >> ELSE <<>>)

\* the variables of a list of count registers: base[0], base[1], ...
RegVars(base, count) == [ i \in 1 .. count |-> base \o "[" \o ToString(i - 1) \o "]" ]

\* [emitter.reg_store.take(write=True) for _ in range(count)]
TakeEach(regs) == [ i \in 1 .. Len(regs) |-> Take(regs[i], TRUE) ]

\* the while loop of FUNC_aors_masked for n > m
RECURSIVE aors_masked_groups(_, _, _, _, _, _, _, _, _)
aors_masked_groups(n, m, a, b, reg_c, reg_mask, m_regs, aors, restore) ==
    IF n = 0
    THEN <<>>
    ELSE LET this_m == Min(n, m)
         IN  aors_masked_aux(a, b, reg_c, reg_mask, SubSeq(m_regs, 1, this_m), aors,
                             this_m # n, restore)
             \o aors_masked_groups(n - this_m, m, displace(a, this_m), displace(b, this_m),
                                   reg_c, reg_mask, m_regs, aors, TRUE)

FUNC_aors_masked(n, aors, m) ==
    LET a == PointerReg("reg_a", 0)
        b == PointerReg("reg_b", 0)
    IN  << TakeArgReg("reg_a", 0, FALSE, None),
           TakeArgReg("reg_b", 1, FALSE, None),
           TakeArgReg("reg_mask", 2, FALSE, None) >>
        \o (IF n > m
            THEN << Take("reg_c", TRUE) >>
                 \o TakeEach(RegVars("m_regs", m))
                 \o << Emit(aors_masked_groups(n, m, a, b, "reg_c", "reg_mask",
                                               RegVars("m_regs", m), aors, FALSE)) >>
            ELSE TakeEach(RegVars("m_regs", n))
                 \o << Emit(aors_masked_aux(a, b, None, "reg_mask", RegVars("m_regs", n),
                                           aors, FALSE, FALSE)) >>)
        \o << TakeRetvalReg("ret", TRUE),
              Emit(<< Ins2("sbbq", OpReg("ret"), OpReg("ret")) >>) >>

\* FUNC_aors_q as it would be if the leaky variant made its label at every n
FUNC_aors_q_any_n(n, aors, leaky) ==
    LET a == PointerReg("reg_a", 0)
        has_label == leaky
        body(i) == IF i # 0
                   THEN << Ins2(aors.ADCSBB, Zero, OpMem(displace(a, i))) >>
                        \o (IF has_label /\ (i # n - 1)
                            THEN << Ins1("jnc", OpLabel("label_done")) >> ELSE <<>>)
                   ELSE << Ins2(aors.ADDSUB, OpReg("reg_b"), OpMem(displace(a, i))) >>
    IN  << TakeArgReg("reg_a", 0, FALSE, None),
           TakeArgReg("reg_b", 1, FALSE, None) >>
        \o (IF has_label THEN << GenLabel("label_done") >> ELSE <<>>)
        \o << Emit(Cat(n, body)) >>
        \o (IF has_label THEN << LabelHere("label_done") >> ELSE <<>>)
        \o << TakeRetvalReg("ret", TRUE),
              Emit(<< Ins2("sbbq", OpReg("ret"), OpReg("ret")) >>) >>

FUNC_aors_q(n, aors, leaky) ==
    LET a == PointerReg("reg_a", 0)
        has_label == leaky /\ n > 2
        body(i) == IF i # 0
                   THEN << Ins2(aors.ADCSBB, Zero, OpMem(displace(a, i))) >>
                        \o (IF has_label /\ (i # n - 1)
                            THEN << Ins1("jnc", OpLabel("label_done")) >> ELSE <<>>)
                   ELSE << Ins2(aors.ADDSUB, OpReg("reg_b"), OpMem(displace(a, i))) >>
    IN  << TakeArgReg("reg_a", 0, FALSE, None),
           TakeArgReg("reg_b", 1, FALSE, None) >>
        \o (IF has_label THEN << GenLabel("label_done") >> ELSE <<>>)
        \o << Emit(Cat(n, body)) >>
        \o (IF has_label THEN << LabelHere("label_done") >> ELSE <<>>)
        \o << TakeRetvalReg("ret", TRUE),
              Emit(<< Ins2("sbbq", OpReg("ret"), OpReg("ret")) >>) >>

FUNC_negate(n) ==
    LET a == PointerReg("reg_a", 0)
        b == PointerReg("reg_b", 0)
        body(i) == (IF i # 0
                    THEN << Ins2("movq", Zero, OpReg("reg_tmp")),
                            Ins2("sbbq", OpMem(displace(a, i)), OpReg("reg_tmp")) >>
                    ELSE << Ins2("movq", OpMem(displace(a, i)), OpReg("reg_tmp")),
                            Ins1("negq", OpReg("reg_tmp")) >>)
                   \o << Ins2("movq", OpReg("reg_tmp"), OpMem(displace(b, i))) >>
    IN  << TakeArgReg("reg_a", 0, FALSE, None),
           TakeArgReg("reg_b", 1, FALSE, None),
           Take("reg_tmp", TRUE),
           Emit(Cat(n, body)),
           TakeRetvalReg("ret", TRUE),
           Emit(<< Ins2("sbbq", OpReg("ret"), OpReg("ret")) >>) >>

\* --------------------------------------------------------- comparisons

\* FUNC_cmplt as it would be if every limb were subtracted with subq, the
\* borrow of the limbs below dropped
FUNC_cmplt_no_borrow(n, is_signed) ==
    LET a == PointerReg("reg_a", 0)
        b == PointerReg("reg_b", 0)
        body(i) == << Ins2("movq", OpMem(displace(a, i)), OpReg("reg_tmp")),
                      Ins2("subq", OpMem(displace(b, i)), OpReg("reg_tmp")) >>
    IN  << TakeArgReg("reg_a", 0, FALSE, None),
           TakeArgReg("reg_b", 1, FALSE, None),
           Take("reg_tmp", TRUE),
           Emit(Cat(n, body)),
           TakeRetvalReg("ret", TRUE),
           Emit(IF is_signed
                THEN << Ins1("setl", OpReg("ret")), Ins2("movzbq", OpReg("ret"), OpReg("ret")) >>
                ELSE << Ins2("sbbq", OpReg("ret"), OpReg("ret")) >>) >>

FUNC_cmplt(n, is_signed) ==
    LET a == PointerReg("reg_a", 0)
        b == PointerReg("reg_b", 0)
        body(i) == << Ins2("movq", OpMem(displace(a, i)), OpReg("reg_tmp")),
                      Ins2(IF i # 0 THEN "sbbq" ELSE "subq", OpMem(displace(b, i)), OpReg("reg_tmp")) >>
    IN  << TakeArgReg("reg_a", 0, FALSE, None),
           TakeArgReg("reg_b", 1, FALSE, None),
           Take("reg_tmp", TRUE),
           Emit(Cat(n, body)),
           TakeRetvalReg("ret", TRUE),
           Emit(IF is_signed
                THEN << Ins1("setl", OpReg("ret")), Ins2("movzbq", OpReg("ret"), OpReg("ret")) >>
                ELSE << Ins2("sbbq", OpReg("ret"), OpReg("ret")) >>) >>

FUNC_cmple(n, is_signed) ==
    LET a == PointerReg("reg_a", 0)
        b == PointerReg("reg_b", 0)
        body(i) == << Ins2("movq", OpMem(displace(b, i)), OpReg("reg_tmp")),
                      Ins2(IF i # 0 THEN "sbbq" ELSE "subq", OpMem(displace(a, i)), OpReg("reg_tmp")) >>
    IN  << TakeArgReg("reg_a", 0, FALSE, None),
           TakeArgReg("reg_b", 1, FALSE, None),
           Take("reg_tmp", TRUE),
           Emit(Cat(n, body)),
           TakeRetvalReg("ret", TRUE),
           Emit(IF is_signed
                THEN << Ins1("setge", OpReg("ret")), Ins2("movzbq", OpReg("ret"), OpReg("ret")) >>
                ELSE << Ins2("sbbq", OpReg("ret"), OpReg("ret")), Ins1("notq", OpReg("ret")) >>) >>

\* FUNC_cmpeq as it would be if the differences of the limbs above the
\* lowest were not gathered into the result
FUNC_cmpeq_first_limb(n) ==
    LET a == PointerReg("reg_a", 0)
        b == PointerReg("reg_b", 0)
        body(i) == IF i # 0
                   THEN << Ins2("movq", OpMem(displace(a, i)), OpReg("reg_tmp")),
                           Ins2("xorq", OpMem(displace(b, i)), OpReg("reg_tmp")) >>
                   ELSE << Ins2("movq", OpMem(displace(a, i)), OpReg("ret")),
                           Ins2("xorq", OpMem(displace(b, i)), OpReg("ret")) >>
    IN  << TakeArgReg("reg_a", 0, FALSE, None),
           TakeArgReg("reg_b", 1, FALSE, None),
           Take("reg_tmp", TRUE),
           TakeRetvalReg("ret", FALSE),
           Emit(Cat(n, body)),
           Emit(<< Ins2("subq", OpImm(1), OpReg("ret")), Ins2("sbbq", OpReg("ret"), OpReg("ret")) >>) >>

FUNC_cmpeq(n) ==
    LET a == PointerReg("reg_a", 0)
        b == PointerReg("reg_b", 0)
        body(i) == IF i # 0
                   THEN << Ins2("movq", OpMem(displace(a, i)), OpReg("reg_tmp")),
                           Ins2("xorq", OpMem(displace(b, i)), OpReg("reg_tmp")),
                           Ins2("orq", OpReg("reg_tmp"), OpReg("ret")) >>
                   ELSE << Ins2("movq", OpMem(displace(a, i)), OpReg("ret")),
                           Ins2("xorq", OpMem(displace(b, i)), OpReg("ret")) >>
    IN  << TakeArgReg("reg_a", 0, FALSE, None),
           TakeArgReg("reg_b", 1, FALSE, None),
           Take("reg_tmp", TRUE),
           TakeRetvalReg("ret", FALSE),
           Emit(Cat(n, body)),
           Emit(<< Ins2("subq", OpImm(1), OpReg("ret")), Ins2("sbbq", OpReg("ret"), OpReg("ret")) >>) >>

\* ------------------------------------------------- shift by whole words

\* What a pass generator does, in order: emit a line, or call assign_callback.
\* src_i = -1 stands for None.
EvEmit(ins) == [ev |-> "emit", ins |-> ins, src_i |-> 0, dst_i |-> 0, cond |-> ""]

EvAssign(src_i, dst_i, cond) ==
    [ev |-> "assign", ins |-> Ins0("nop"), src_i |-> src_i, dst_i |-> dst_i, cond |-> cond]

\* cond_shr_words as it would be if the limbs that take the fill value were
\* left alone
cond_shr_words_no_fill(n, amount, cond) ==
    [ k \in 1 .. (IF amount >= n THEN 0 ELSE n - amount) |-> EvAssign(k - 1 + amount, k - 1, cond) ]

cond_shr_words(n, amount, cond) ==
    [ k \in 1 .. n |->
        LET i == k - 1
            src_i == i + amount
        IN  IF src_i >= n THEN EvAssign(0 - 1, i, cond) ELSE EvAssign(src_i, i, cond) ]

cond_shl_words(n, amount, cond) ==
    [ k \in 1 .. n |->
        LET i == n - k
            src_i == i - amount
        IN  IF src_i < 0 THEN EvAssign(0 - 1, i, cond) ELSE EvAssign(src_i, i, cond) ]

\* the comparison line that opens pass i of the dumb sequences
DumbCompare(reg_b, i) ==
    IF i # 0 THEN Ins2("cmpq", OpImm(i), OpReg(reg_b)) ELSE Ins2("testq", OpReg(reg_b), OpReg(reg_b))

\* dumb_shr_words as it would be if the pass for amounts of n and more
\* were left out
dumb_shr_words_short(reg_b, n) ==
    LET pass(i) == << EvEmit(DumbCompare(reg_b, i)) >> \o cond_shr_words(n - i, 1, "a")
    IN  Cat(n - 1, pass)

dumb_shr_words(reg_b, n) ==
    LET pass(i) == << EvEmit(DumbCompare(reg_b, i)) >> \o cond_shr_words(n - i, 1, "a")
    IN  Cat(n, pass)

\* dumb_shl_words as it would be with n - 1 passes
dumb_shl_words_short(reg_b, n) ==
    LET shifted(evs, i) ==
            [ k \in 1 .. Len(evs) |->
                EvAssign(IF evs[k].src_i # 0 - 1 THEN evs[k].src_i + i ELSE 0 - 1,
                         evs[k].dst_i + i, evs[k].cond) ]
        pass(i) == << EvEmit(DumbCompare(reg_b, i)) >> \o shifted(cond_shl_words(n - i, 1, "a"), i)
    IN  Cat(n - 1, pass)

\* new_assign_callback adds i to both indices
dumb_shl_words(reg_b, n) ==
    LET shifted(evs, i) ==
            [ k \in 1 .. Len(evs) |->
                EvAssign(IF evs[k].src_i # 0 - 1 THEN evs[k].src_i + i ELSE 0 - 1,
                         evs[k].dst_i + i, evs[k].cond) ]
        pass(i) == << EvEmit(DumbCompare(reg_b, i)) >> \o shifted(cond_shl_words(n - i, 1, "a"), i)
    IN  Cat(n, pass)

\* the while loop of fancy_shift_words, from bit number i on
RECURSIVE fancy_bits(_, _, _, _)
fancy_bits(reg_b, n, left, i) ==
    LET bit == 2 ^ i
    IN  IF bit >= n
        THEN <<>>
        ELSE << EvEmit(Ins2("testq", OpImm(bit), OpReg(reg_b))) >>
             \o (IF left THEN cond_shl_words(n, bit, "nz") ELSE cond_shr_words(n, bit, "nz"))
             \o fancy_bits(reg_b, n, left, i + 1)

fancy_shift_words(reg_b, n, left) ==
    fancy_bits(reg_b, n, left, 0)
    \o << EvEmit(Ins2("cmpq", OpImm(n - 1), OpReg(reg_b))) >>
    \o (IF left THEN cond_shl_words(n, n, "a") ELSE cond_shr_words(n, n, "a"))

\* up to this many limbs the dumb sequence is used
DumbShiftMaxN == 8

\* direction is "left" or "right"
shift_words_auto(reg_b, n, direction) ==
    LET left == (direction = "left")
    IN  IF n <= DumbShiftMaxN
        THEN (IF left THEN dumb_shl_words(reg_b, n) ELSE dumb_shr_words(reg_b, n))
        ELSE fancy_shift_words(reg_b, n, left)

CmovInsn(cond) == IF cond = "a" THEN "cmovaq" ELSE "cmovnzq"

\* written_to_c_at[i] when event number k of evs is reached: an assignment
\* before it had destination i
written_to_c_at(evs, k, i) ==
    \E j \in 1 .. (k - 1) : evs[j].ev = "assign" /\ evs[j].dst_i = i

\* the events run against the in-place assign_callback (n > m): the lines
\* emitted
run_in_place(evs, a, c, reg_fill, reg_tmp) ==
    LET get_ptr(k, i) == IF written_to_c_at(evs, k, i) THEN displace(c, i) ELSE displace(a, i)
        lines(j) ==
            LET k == j + 1
                ev == evs[k]
            IN  IF ev.ev = "emit"
                THEN << ev.ins >>
                ELSE << Ins2("movq", OpMem(get_ptr(k, ev.dst_i)), OpReg(reg_tmp)),
                        IF ev.src_i = 0 - 1
                        THEN Ins2(CmovInsn(ev.cond), OpReg(reg_fill), OpReg(reg_tmp))
                        ELSE Ins2(CmovInsn(ev.cond), OpMem(get_ptr(k, ev.src_i)), OpReg(reg_tmp)),
                        Ins2("movq", OpReg(reg_tmp), OpMem(displace(c, ev.dst_i))) >>
    IN  Cat(Len(evs), lines)

\* the events run against the register assign_callback (n <= m)
run_in_regs(evs, tmp_regs, reg_fill) ==
    [ k \in 1 .. Len(evs) |->
        LET ev == evs[k]
        IN  IF ev.ev = "emit"
            THEN ev.ins
            ELSE IF ev.src_i = 0 - 1
                 THEN Ins2(CmovInsn(ev.cond), OpReg(reg_fill), OpReg(tmp_regs[ev.dst_i + 1]))
                 ELSE Ins2(CmovInsn(ev.cond), OpReg(tmp_regs[ev.src_i + 1]), OpReg(tmp_regs[ev.dst_i + 1])) ]

\* reg_fill: the sign of the top limb, read from src, or a zero register
TakeFill(src, is_signed) ==
    IF is_signed
    THEN << Take("reg_fill", TRUE),
            Emit(<< Ins2("movq", src, OpReg("reg_fill")),
                    Ins2("sarq", OpImm(WordBits - 1), OpReg("reg_fill")) >>) >>
    ELSE << TakeZeroReg("reg_fill") >>

\* shift_words_auto with the in-place callback, and the assertion
\* all(written_to_c_at) after it
shift_in_place(n, direction, a, c) ==
    LET evs == shift_words_auto("reg_b", n, direction)
    IN  << Emit(run_in_place(evs, a, c, "reg_fill", "reg_tmp")) >>
        \o (IF \A i \in Range0(n) : written_to_c_at(evs, Len(evs) + 1, i)
            THEN <<>>
            ELSE << RaiseError("AssertionError") >>)

FUNC_shift_words(n, direction, is_signed, m) ==
    LET a == PointerReg("reg_a", 0)
        c == PointerReg("reg_c", 0)
        tmp_regs == RegVars("tmp_regs", n)
        load(i) == << Ins2("movq", OpMem(displace(a, i)), OpReg(tmp_regs[i + 1])) >>
        store(i) == << Ins2("movq", OpReg(tmp_regs[i + 1]), OpMem(displace(c, i))) >>
    IN  << TakeArgReg("reg_a", 0, FALSE, None),
           TakeArgReg("reg_b", 1, FALSE, None),
           TakeArgReg("reg_c", 2, FALSE, None) >>
        \o (IF n > m
            THEN TakeFill(OpMem(displace(a, n - 1)), is_signed)
                 \o << Take("reg_tmp", TRUE) >>
                 \o (IF direction \in {"left", "right"}
                     THEN shift_in_place(n, direction, a, c)
                     ELSE << RaiseError("ValueError: direction") >>)
            ELSE TakeEach(tmp_regs)
                 \o << Emit(Cat(n, load)) >>
                 \o TakeFill(OpReg(tmp_regs[n]), is_signed)
                 \o (IF direction \in {"left", "right"}
                     THEN << Emit(run_in_regs(shift_words_auto("reg_b", n, direction),
                                              tmp_regs, "reg_fill")) >>
                     ELSE << RaiseError("ValueError: direction") >>)
                 \o << Emit(Cat(n, store)) >>)

\* -------------------------------------------------------- routine catalog

\* the group size m of aors_masked and of shift_words, per backend
MInline == 8

MSysv == 4

\* aors_masked_m as it would be if the standalone routines had the m of the
\* asm statements
aors_masked_m_shared(is_inline_asm) == MInline

aors_masked_m(is_inline_asm) == IF is_inline_asm THEN MInline ELSE MSysv

shift_words_m(is_inline_asm) == IF is_inline_asm THEN MInline ELSE MSysv

\* choose_plain_or_bmi2 with the cached answer of check_cap("bmi2")
choose_plain_or_bmi2(bmi2, plain, with_bmi2) == IF bmi2 THEN with_bmi2 ELSE plain

\* get_generated_funcs: exported name (without prefix and width) -> prototype
Protos ==
    [ add |-> [params |-> << "#*", "@#*" >>, ret |-> "#"],
      sub |-> [params |-> << "#*", "@#*" >>, ret |-> "#"],
      add_masked |-> [params |-> << "#*", "@#*", "#" >>, ret |-> "#"],
      sub_masked |-> [params |-> << "#*", "@#*", "#" >>, ret |-> "#"],
      negate |-> [params |-> << "@#*", "#*" >>, ret |-> "#"],
      add_q |-> [params |-> << "#*", "#" >>, ret |-> "#"],
      sub_q |-> [params |-> << "#*", "#" >>, ret |-> "#"],
      add_q_leaky |-> [params |-> << "#*", "#" >>, ret |-> "#"],
      sub_q_leaky |-> [params |-> << "#*", "#" >>, ret |-> "#"],
      cmplt |-> [params |-> << "@#*", "@#*" >>, ret |-> "#"],
      cmple |-> [params |-> << "@#*", "@#*" >>, ret |-> "#"],
      S_cmplt |-> [params |-> << "@#*", "@#*" >>, ret |-> "#"],
      S_cmple |-> [params |-> << "@#*", "@#*" >>, ret |-> "#"],
      cmpeq |-> [params |-> << "@#*", "@#*" >>, ret |-> "#"],
      mul_q |-> [params |-> << "@#*", "#", "#*" >>, ret |-> "#"],
      div_q |-> [params |-> << "@#*", "#", "#*" >>, ret |-> "#"],
      mod_q |-> [params |-> << "@#*", "#" >>, ret |-> "#"],
      mul_lo |-> [params |-> << "@#*", "@#*", "#*" >>, ret |-> "void"],
      mul |-> [params |-> << "@#*", "@#*", "#*" >>, ret |-> "void"],
      shr_nz |-> [params |-> << "@#*", "#", "#*" >>, ret |-> "void"],
      S_shr_nz |-> [params |-> << "@#*", "#", "#*" >>, ret |-> "void"],
      shl_nz |-> [params |-> << "@#*", "#", "#*" >>, ret |-> "void"],
      shr |-> [params |-> << "@#*", "#", "#*" >>, ret |-> "void"],
      S_shr |-> [params |-> << "@#*", "#", "#*" >>, ret |-> "void"],
      shl |-> [params |-> << "@#*", "#", "#*" >>, ret |-> "void"],
      shr_words |-> [params |-> << "@#*", "#", "#*" >>, ret |-> "void"],
      S_shr_words |-> [params |-> << "@#*", "#", "#*" >>, ret |-> "void"],
      shl_words |-> [params |-> << "@#*", "#", "#*" >>, ret |-> "void"] ]

FuncNames == DOMAIN Protos

\* get_generated_funcs: the callback of the entry called name, as the
\* statements it applies to its emitter
Callback(name, n, bmi2, is_inline_asm) ==
    CASE name = "add" -> FUNC_aors(n, AORS_ADD)
      [] name = "sub" -> FUNC_aors(n, AORS_SUB)
      [] name = "add_masked" -> FUNC_aors_masked(n, AORS_ADD, aors_masked_m(is_inline_asm))
      [] name = "sub_masked" -> FUNC_aors_masked(n, AORS_SUB, aors_masked_m(is_inline_asm))
      [] name = "negate" -> FUNC_negate(n)
      [] name = "add_q" -> FUNC_aors_q(n, AORS_ADD, FALSE)
      [] name = "sub_q" -> FUNC_aors_q(n, AORS_SUB, FALSE)
      [] name = "add_q_leaky" -> FUNC_aors_q(n, AORS_ADD, TRUE)
      [] name = "sub_q_leaky" -> FUNC_aors_q(n, AORS_SUB, TRUE)
      [] name = "cmplt" -> FUNC_cmplt(n, FALSE)
      [] name = "cmple" -> FUNC_cmple(n, FALSE)
      [] name = "S_cmplt" -> FUNC_cmplt(n, TRUE)
      [] name = "S_cmple" -> FUNC_cmple(n, TRUE)
      [] name = "cmpeq" -> FUNC_cmpeq(n)
      [] name = "mul_q" -> choose_plain_or_bmi2(bmi2, FUNC_mul_q(n), FUNC_mul_q_bmi2(n))
      [] name = "div_q" -> FUNC_div_q(n, "div")
      [] name = "mod_q" -> FUNC_div_q(n, "mod")
      [] name = "mul_lo" -> choose_plain_or_bmi2(bmi2, FUNC_mul_lo(n), FUNC_mul_lo_bmi2(n))
      [] name = "mul" -> choose_plain_or_bmi2(bmi2, FUNC_mul(n, n), FUNC_mul_bmi2(n, n))
      [] name = "shr_nz" -> FUNC_shr(n, FALSE, bmi2)
      [] name = "S_shr_nz" -> FUNC_shr(n, TRUE, bmi2)
      [] name = "shl_nz" -> FUNC_shl(n, bmi2)
      [] name = "shr" -> FUNC_shr(n, FALSE, FALSE)
      [] name = "S_shr" -> FUNC_shr(n, TRUE, FALSE)
      [] name = "shl" -> FUNC_shl(n, FALSE)
      [] name = "shr_words" -> FUNC_shift_words(n, "right", FALSE, shift_words_m(is_inline_asm))
      [] name = "S_shr_words" -> FUNC_shift_words(n, "right", TRUE, shift_words_m(is_inline_asm))
      [] name = "shl_words" -> FUNC_shift_words(n, "left", FALSE, shift_words_m(is_inline_asm))

\* func.callback(emitter, n): the emitter after the statements of the callback
Called(name, n, bmi2, e) ==
    Statements([e |-> e, locals |-> NoLocals], Callback(name, n, bmi2, IsInline(e))).e

\* gen_asm: one routine through a fresh SysvAbiFunctionEmitter, closed by retq
gen_asm(name, n, bmi2, label_counter) ==
    emit(Called(name, n, bmi2, NewEmitter("sysv", label_counter)), Ins0("retq"))

\* ---------------------------------------- the inline-asm constraint tail

\* one entry of the outputs or inputs list: [keyword] "mode letter" (keyword)
Constraint(keyword, mode, early, reg_name) ==
    [ keyword |-> keyword, mode |-> mode, early |-> early, reg_name |-> reg_name,
      letter |-> IF reg_name = "" THEN "r"
                 ELSE IF reg_name \in DOMAIN REG_NAMES_TO_LETTERS
                      THEN REG_NAMES_TO_LETTERS[reg_name] ELSE "KeyError" ]

ArgKeyword(i) == CASE i = 0 -> "arg0" [] i = 1 -> "arg1" [] i = 2 -> "arg2" [] OTHER -> "arg3"

\* _add_output inside emit_epilogue: t holds the outputs and the clobbers so far
add_output(t, keyword, reg_name, is_read, force_earlyclobber) ==
    LET hit == reg_name # "" /\ reg_name \in t.clobbers
    IN  [ t EXCEPT
            !.clobbers = IF hit THEN @ \ {reg_name} ELSE @,
            !.outputs = Append(@, Constraint(keyword, IF is_read THEN "+" ELSE "=",
                                             force_earlyclobber \/ hit, reg_name)) ]

\* the loop of emit_epilogue over self.args
RECURSIVE epilogue_args(_, _, _)
epilogue_args(t, e, i) ==
    IF i >= Len(e.args)
    THEN t
    ELSE LET is_written_to == e.args[i + 1][1]
             reg_name == e.args[i + 1][2]
             is_same_reg_as_retval == reg_name # "" /\ e.retval_set /\ reg_name = e.retval
         IN  epilogue_args(
                 IF is_written_to /\ ~ is_same_reg_as_retval
                 THEN add_output(t, ArgKeyword(i), reg_name, TRUE, FALSE)
                 ELSE [t EXCEPT !.inputs = Append(@, Constraint(ArgKeyword(i), "", FALSE, reg_name))],
                 e, i + 1)

\* emit_epilogue as it would be if the return operand were registered
\* whether or not the template set one
emit_epilogue_always_ret(e) ==
    LET t0 == [outputs |-> <<>>, inputs |-> <<>>, clobbers |-> clobbers(e)]
        t1 == epilogue_args(t0, e, 0)
        t2 == add_output(t1, "ret", e.retval, FALSE, e.retval_earlyclobber)
        t3 == IF e.needs_zero_input
              THEN [t2 EXCEPT !.inputs = Append(@, Constraint("zero", "", FALSE, ""))]
              ELSE t2
    IN  [t3 EXCEPT !.clobbers = @ \cup {"cc", "memory"}]

\* InlineAsmEmitter.emit_epilogue: the outputs, inputs and clobbers it prints
emit_epilogue(e) ==
    LET t0 == [outputs |-> <<>>, inputs |-> <<>>, clobbers |-> clobbers(e)]
        t1 == epilogue_args(t0, e, 0)
        t2 == IF e.retval_set
              THEN add_output(t1, "ret", e.retval, FALSE, e.retval_earlyclobber)
              ELSE t1
        t3 == IF e.needs_zero_input
              THEN [t2 EXCEPT !.inputs = Append(@, Constraint("zero", "", FALSE, ""))]
              ELSE t2
    IN  [t3 EXCEPT !.clobbers = @ \cup {"cc", "memory"}]

\* gen_inline_asm: one routine through a fresh InlineAsmEmitter
gen_inline_asm(name, n, bmi2) == Called(name, n, bmi2, NewEmitter("inline", 0))

\* ------------------------------------- the compiler's choice of registers

PhysRegs == SeqToSet(ALL_REGS)

\* registers an instruction uses without naming them
ImplicitRegs(op) ==
    CASE op \in {"mulq", "divq"} -> {"rax", "rdx"}
      [] op = "mulxq" -> {"rdx"}
      [] OTHER -> {}

OperandRegs(o) == IF o.k \in {"reg", "mem"} /\ o.reg.real THEN {RegName(o.reg)} ELSE {}

\* the physical registers the text of a program refers to
MentionedRegs(out) ==
    UNION { OperandRegs(out[i].a) \cup OperandRegs(out[i].b) \cup OperandRegs(out[i].c)
            \cup ImplicitRegs(out[i].op) : i \in 1 .. Len(out) }

\* the first register of ALL_REGS in set s
FirstOf(s) == ALL_REGS[CHOOSE i \in 1 .. Len(ALL_REGS) :
                  ALL_REGS[i] \in s /\ \A j \in 1 .. (i - 1) : ALL_REGS[j] \notin s]

\* a function with an empty domain
EmptyFun == [ x \in {} |-> "" ]

\* The bindings keyword -> register a compiler may choose for the operands
\* cs, given those already bound in f.  An operand with a letter gets that
\* register; an "r" operand gets any register that is neither clobbered nor
\* bound to another operand, except that an output without & may share the
\* register of an input.  Registers the program text never refers to are
\* interchangeable, so of those only the first free one is tried.
RECURSIVE BindAll(_, _, _, _, _)
BindAll(cs, f, ep, reserved, mentioned) ==
    IF Len(cs) = 0
    THEN {f}
    ELSE LET c == Head(cs)
             used == { f[k] : k \in DOMAIN f }
             free == ((PhysRegs \ ep.clobbers) \ used) \ reserved
             anon == free \ mentioned
             shared == IF c.mode = "=" /\ ~ c.early
                       THEN { f[k.keyword] : k \in SeqToSet(ep.inputs) } \ ep.clobbers
                       ELSE {}
             choices == IF c.reg_name # ""
                        THEN {c.reg_name}
                        ELSE (free \cap mentioned)
                             \cup (IF anon = {} THEN {} ELSE {FirstOf(anon)})
                             \cup shared
         IN  UNION { BindAll(Tail(cs), (c.keyword :> r) @@ f, ep, reserved, mentioned)
                     : r \in choices }

Bindings(e) ==
    LET ep == emit_epilogue(e)
        all == ep.inputs \o ep.outputs
        \* a register an operand is tied to is kept for that operand, unless
        \* the operand is an output that may share
        reserved == { c.reg_name : c \in { x \in SeqToSet(all) :
                          x.reg_name # "" /\ ~ (x.mode = "=" /\ ~ x.early) } }
    IN  BindAll(all, EmptyFun, ep, reserved, MentionedRegs(e.out))

\* a program with every placeholder replaced by the register bound to it
ResolveOperand(o, bind) ==
    IF o.k \in {"reg", "mem"} /\ ~ o.reg.real
    THEN [o EXCEPT !.reg = RealReg(index_by_name(ALL_REGS, bind[o.reg.keyword]))]
    ELSE o

Resolve(out, bind) ==
    [ i \in 1 .. Len(out) |->
        [ op |-> out[i].op, a |-> ResolveOperand(out[i].a, bind),
          b |-> ResolveOperand(out[i].b, bind), c |-> ResolveOperand(out[i].c, bind) ] ]

\* ------------------------------------------------------------ the machine

\* A register or memory cell holds a limb 0 .. Base-1, the address of
\* argument array k (PtrOf(k)), or nothing that is defined (Undef).
Undef == 0 - 1

PtrOf(k) == 0 - (k + 2)

IsData(v) == v >= 0

IsPtr(v) == v <= 0 - 2

ArrayOf(v) == (0 - v) - 2

HalfBase == Base \div 2

\* the value of a limb read as a two's-complement number
Signed(x) == IF x >= HalfBase THEN x - Base ELSE x

Bit(x, i) == (x \div (2 ^ i)) % 2

B2N(b) == IF b THEN 1 ELSE 0

\* bitwise combination of the low bits bits of x and y
RECURSIVE Bitwise(_, _, _, _)
Bitwise(x, y, f, bits) ==
    IF bits = 0
    THEN 0
    ELSE LET bx == x % 2
             by == y % 2
             r == CASE f = "and" -> bx * by
                    [] f = "or" -> IF bx + by > 0 THEN 1 ELSE 0
                    [] f = "xor" -> (bx + by) % 2
         IN  r + 2 * Bitwise(x \div 2, y \div 2, f, bits - 1)

\* the low byte of a register is all of a limb that is at most a byte wide
ByteBase == Min(Base, 2 ^ 8)

UndefFlags == [cf |-> Undef, zf |-> Undef, sf |-> Undef, ovf |-> Undef]

\* zf and sf of a result, with the given cf and ovf
FlagsOf(res, cf, ovf) ==
    [cf |-> cf, zf |-> B2N(res = 0), sf |-> B2N(res >= HalfBase), ovf |-> ovf]

SignedOverflow(x) == B2N(x < 0 - HalfBase \/ x > HalfBase - 1)

\* machine state: st.regs, st.flags, st.mem, st.fault
Fault(st, what) == IF st.fault = "" THEN [st EXCEPT !.fault = what] ELSE st

AddrOk(st, o) ==
    LET base == st.regs[RegName(o.reg)]
    IN  IsPtr(base) /\ ArrayOf(base) \in DOMAIN st.mem
        /\ (o.off + 1) \in 1 .. Len(st.mem[ArrayOf(base)])

\* an operand can be read or written without a fault
OperandOk(st, o) == o.k # "mem" \/ AddrOk(st, o)

Read(st, o) ==
    CASE o.k = "reg" -> st.regs[RegName(o.reg)]
      [] o.k = "imm" -> o.v
      [] o.k = "mem" -> IF AddrOk(st, o)
                        THEN st.mem[ArrayOf(st.regs[RegName(o.reg)])][o.off + 1]
                        ELSE Undef
      [] OTHER -> Undef

Write(st, o, v) ==
    CASE o.k = "reg" -> [st EXCEPT !.regs[RegName(o.reg)] = v]
      [] o.k = "mem" -> IF AddrOk(st, o)
                        THEN [st EXCEPT !.mem[ArrayOf(st.regs[RegName(o.reg)])][o.off + 1] = v]
                        ELSE Fault(st, "segv")
      [] OTHER -> Fault(st, "bad operand")

SetFlags(st, fl) == [st EXCEPT !.flags = fl]

\* add, adc, sub, sbb, cmp: src and dst in the roles of "op src, dst"
ExecAddSub(st, ins) ==
    LET op == ins.op
        s == Read(st, ins.a)
        d == Read(st, ins.b)
        with_carry == op \in {"adcq", "sbbq"}
        c == IF with_carry THEN st.flags.cf ELSE 0
        is_add == op \in {"addq", "adcq"}
        same_reg == ins.a.k = "reg" /\ ins.a = ins.b
    IN  IF c = Undef
        THEN Fault(st, "undefined flag read")
        ELSE IF op = "sbbq" /\ same_reg
        THEN \* the result does not depend on the register's old value
             SetFlags(Write(st, ins.b, (Base - c) % Base), FlagsOf((Base - c) % Base, c, 0))
        ELSE IF ~ (IsData(s) /\ IsData(d))
        THEN Fault(st, "undefined value read")
        ELSE LET wide == IF is_add THEN d + s + c ELSE d - s - c
                 res == wide % Base
                 cf == B2N(wide >= Base \/ wide < 0)
                 ovf == SignedOverflow(IF is_add THEN Signed(d) + Signed(s) + c
                                       ELSE Signed(d) - Signed(s) - c)
                 st1 == IF op = "cmpq" THEN st ELSE Write(st, ins.b, res)
             IN  SetFlags(st1, FlagsOf(res, cf, ovf))

\* and, or, xor, test, and the xorl that clears a register
ExecLogic(st, ins) ==
    LET op == ins.op
        s == Read(st, ins.a)
        d == Read(st, ins.b)
        f == CASE op \in {"andq", "testq"} -> "and" [] op = "orq" -> "or" [] OTHER -> "xor"
    IN  IF op = "xorl"
        THEN IF ins.a.k = "reg" /\ ins.a = ins.b
             THEN SetFlags(Write(st, ins.b, 0), FlagsOf(0, 0, 0))
             ELSE Fault(st, "xorl of two registers is not modelled")
        ELSE IF ~ (IsData(s) /\ IsData(d))
        THEN Fault(st, "undefined value read")
        ELSE LET res == Bitwise(s, d, f, WordBits)
                 st1 == IF op = "testq" THEN st ELSE Write(st, ins.b, res)
             IN  SetFlags(st1, FlagsOf(res, 0, 0))

\* the count of a shift, as the processor masks it
ShiftCount(v) == v % WordBits

ShrVal(x, k) == x \div (2 ^ k)

ShlVal(x, k) == (x * (2 ^ k)) % Base

SarVal(x, k) == (Signed(x) \div (2 ^ k)) % Base

\* shl, shr, sar by an immediate or by %cl
ExecShift(st, ins) ==
    LET op == ins.op
        cv == Read(st, ins.a)
        d == Read(st, ins.b)
    IN  IF ~ (IsData(cv) /\ IsData(d))
        THEN Fault(st, "undefined value read")
        ELSE LET k == ShiftCount(cv)
                 res == CASE op = "shlq" -> ShlVal(d, k)
                          [] op = "shrq" -> ShrVal(d, k)
                          [] op = "sarq" -> SarVal(d, k)
                 cf == IF op = "shlq" THEN Bit(d, WordBits - k) ELSE Bit(d, k - 1)
                 ovf == IF k # 1 THEN Undef
                        ELSE CASE op = "shlq" -> (Bit(res, WordBits - 1) + cf) % 2
                               [] op = "shrq" -> Bit(d, WordBits - 1)
                               [] op = "sarq" -> 0
             IN  IF k = 0 THEN st
                 ELSE SetFlags(Write(st, ins.b, res), FlagsOf(res, cf, ovf))

\* shrd, shld: "op %cl, donor, dst"
ExecDoubleShift(st, ins) ==
    LET cv == Read(st, ins.a)
        donor == Read(st, ins.b)
        d == Read(st, ins.c)
    IN  IF ~ (IsData(cv) /\ IsData(donor) /\ IsData(d))
        THEN Fault(st, "undefined value read")
        ELSE LET k == ShiftCount(cv)
                 res == IF ins.op = "shrdq"
                        THEN (ShrVal(d, k) + ShlVal(donor, WordBits - k)) % Base
                        ELSE (ShlVal(d, k) + ShrVal(donor, WordBits - k)) % Base
                 cf == IF ins.op = "shrdq" THEN Bit(d, k - 1) ELSE Bit(d, WordBits - k)
                 ovf == IF k # 1 THEN Undef
                        ELSE (Bit(res, WordBits - 1) + Bit(d, WordBits - 1)) % 2
             IN  IF k = 0 THEN st
                 ELSE SetFlags(Write(st, ins.c, res), FlagsOf(res, cf, ovf))

\* shrx, shlx, sarx: "op count, src, dst", flags untouched
ExecShiftX(st, ins) ==
    LET cv == Read(st, ins.a)
        s == Read(st, ins.b)
    IN  IF ~ OperandOk(st, ins.b)
        THEN Fault(st, "segv")
        ELSE IF ~ (IsData(cv) /\ IsData(s))
        THEN Fault(st, "undefined value read")
        ELSE LET k == ShiftCount(cv)
             IN  Write(st, ins.c, CASE ins.op = "shlxq" -> ShlVal(s, k)
                                    [] ins.op = "shrxq" -> ShrVal(s, k)
                                    [] ins.op = "sarxq" -> SarVal(s, k))

R_rax == OpReg(RealReg(index_by_name(ALL_REGS, "rax")))

R_rdx == OpReg(RealReg(index_by_name(ALL_REGS, "rdx")))

\* mulq src; imulq src, dst; mulxq src, lo, hi; divq src
ExecMulDiv(st, ins) ==
    LET op == ins.op
        s == Read(st, ins.a)
        rax == Read(st, R_rax)
        rdx == Read(st, R_rdx)
    IN  CASE op = "mulq" ->
                 IF ~ (IsData(s) /\ IsData(rax))
                 THEN Fault(st, "undefined value read")
                 ELSE LET prod == rax * s
                          hi == prod \div Base
                      IN  [ Write(Write(st, R_rax, prod % Base), R_rdx, hi)
                            EXCEPT !.flags = [cf |-> B2N(hi # 0), zf |-> Undef,
                                              sf |-> Undef, ovf |-> B2N(hi # 0)] ]
          [] op = "imulq" ->
                 LET d == Read(st, ins.b)
                 IN  IF ~ (IsData(s) /\ IsData(d))
                     THEN Fault(st, "undefined value read")
                     ELSE LET sp == Signed(d) * Signed(s)
                              o == SignedOverflow(sp)
                          IN  [ Write(st, ins.b, (d * s) % Base)
                                EXCEPT !.flags = [cf |-> o, zf |-> Undef, sf |-> Undef, ovf |-> o] ]
          [] op = "mulxq" ->
                 IF ~ (IsData(s) /\ IsData(rdx))
                 THEN Fault(st, "undefined value read")
                 ELSE LET prod == rdx * s
                      IN  \* the high half is written last
                          Write(Write(st, ins.b, prod % Base), ins.c, prod \div Base)
          [] op = "divq" ->
                 IF ~ (IsData(s) /\ IsData(rax) /\ IsData(rdx))
                 THEN Fault(st, "undefined value read")
                 ELSE IF s = 0 \/ rdx >= s
                 THEN Fault(st, "divide error")
                 ELSE LET dividend == rdx * Base + rax
                      IN  [ Write(Write(st, R_rax, dividend \div s), R_rdx, dividend % s)
                            EXCEPT !.flags = UndefFlags ]

\* mov, movzb, not, neg, cmov, setcc
ExecMove(st, ins) ==
    LET op == ins.op
        s == Read(st, ins.a)
        fl == st.flags
    IN  CASE op = "movq" -> Write(st, ins.b, s)
          [] op = "movzbq" ->
                 IF ~ IsData(s) THEN Fault(st, "undefined value read")
                 ELSE Write(st, ins.b, s % ByteBase)
          [] op = "notq" ->
                 IF ~ IsData(s) THEN Fault(st, "undefined value read")
                 ELSE Write(st, ins.a, (Base - 1) - s)
          [] op = "negq" ->
                 IF ~ IsData(s) THEN Fault(st, "undefined value read")
                 ELSE LET res == (Base - s) % Base
                      IN  SetFlags(Write(st, ins.a, res), FlagsOf(res, B2N(s # 0), B2N(s = HalfBase)))
          [] op \in {"cmovaq", "cmovnzq"} ->
                 IF fl.zf = Undef \/ (op = "cmovaq" /\ fl.cf = Undef)
                 THEN Fault(st, "undefined flag read")
                 ELSE LET cond == IF op = "cmovaq" THEN fl.cf = 0 /\ fl.zf = 0 ELSE fl.zf = 0
                      IN  IF cond THEN Write(st, ins.b, s) ELSE st
          [] op \in {"setl", "setge"} ->
                 IF fl.sf = Undef \/ fl.ovf = Undef
                 THEN Fault(st, "undefined flag read")
                 ELSE LET bit == IF op = "setl" THEN B2N(fl.sf # fl.ovf) ELSE B2N(fl.sf = fl.ovf)
                      IN  IF IsData(s)
                          THEN Write(st, ins.a, (s \div ByteBase) * ByteBase + bit)
                          ELSE IF ByteBase >= Base THEN Write(st, ins.a, bit)
                          ELSE st

\* one instruction that is not a jump, applied to the machine state st
Exec(st, ins) ==
    LET op == ins.op
        st0 == IF OperandOk(st, ins.a) /\ OperandOk(st, ins.b) THEN st ELSE Fault(st, "segv")
    IN  IF st0.fault # "" THEN st0
        ELSE CASE op \in {"addq", "adcq", "subq", "sbbq", "cmpq"} -> ExecAddSub(st, ins)
               [] op \in {"andq", "orq", "xorq", "testq", "xorl"} -> ExecLogic(st, ins)
               [] op \in {"shlq", "shrq", "sarq"} -> ExecShift(st, ins)
               [] op \in {"shrdq", "shldq"} -> ExecDoubleShift(st, ins)
               [] op \in {"shrxq", "shlxq", "sarxq"} -> ExecShiftX(st, ins)
               [] op \in {"mulq", "imulq", "mulxq", "divq"} -> ExecMulDiv(st, ins)
               [] op \in {"movq", "movzbq", "notq", "negq", "cmovaq", "cmovnzq", "setl", "setge"} ->
                      ExecMove(st, ins)
               [] op = "label" -> st
               [] OTHER -> Fault(st, "unknown instruction")

\* the position of the line "label:" in a program
LabelPos(prog, label) ==
    CHOOSE i \in 1 .. Len(prog) : prog[i].op = "label" /\ prog[i].a.v = label

\* ------------------------------------------ generated code, per routine

\* the routines whose callback consults check_cap_cached("bmi2")
Bmi2Funcs == {"mul_q", "mul_lo", "mul", "shr_nz", "S_shr_nz", "shl_nz"}

Bmi2Answers(name) == IF name \in Bmi2Funcs THEN BOOLEAN ELSE {FALSE}

Widths == 1 .. MaxN

\* What gen_asm and gen_inline_asm produce for each catalog entry, width and
\* capability answer: the final emitters and, for the inline one, the
\* register bindings a compiler may choose.
Outcome(name, k, bm, es, ei) ==
    [name |-> name, k |-> k, bm |-> bm, sysv |-> es, inline |-> ei, binds |-> Bindings(ei)]

Generated ==
    { Outcome(c[1], c[2], c[3], gen_asm(c[1], c[2], c[3], 0), gen_inline_asm(c[1], c[2], c[3])) :
        c \in { x \in FuncNames \X Widths \X BOOLEAN : x[3] \in Bmi2Answers(x[1]) } }

\* what was generated for routine name at width k under capability answer bm
GeneratedFor(name, k, bm) == CHOOSE g \in Generated : g.name = name /\ g.k = k /\ g.bm = bm

\* --------------------------------------------------- arguments and memory

\* What each argument of a routine is: the array a, the array b, a limb q,
\* or a destination of n or 2n limbs that is not initialised by the caller.
Roles ==
    [ add |-> << "a", "b" >>, sub |-> << "a", "b" >>,
      add_masked |-> << "a", "b", "q" >>, sub_masked |-> << "a", "b", "q" >>,
      negate |-> << "a", "dst" >>,
      add_q |-> << "a", "q" >>, sub_q |-> << "a", "q" >>,
      add_q_leaky |-> << "a", "q" >>, sub_q_leaky |-> << "a", "q" >>,
      cmplt |-> << "a", "b" >>, cmple |-> << "a", "b" >>,
      S_cmplt |-> << "a", "b" >>, S_cmple |-> << "a", "b" >>,
      cmpeq |-> << "a", "b" >>,
      mul_q |-> << "a", "q", "dst" >>, div_q |-> << "a", "q", "dst" >>,
      mod_q |-> << "a", "q" >>,
      mul_lo |-> << "a", "b", "dst" >>, mul |-> << "a", "b", "dst2" >>,
      shr_nz |-> << "a", "q", "dst" >>, S_shr_nz |-> << "a", "q", "dst" >>,
      shl_nz |-> << "a", "q", "dst" >>,
      shr |-> << "a", "q", "dst" >>, S_shr |-> << "a", "q", "dst" >>,
      shl |-> << "a", "q", "dst" >>,
      shr_words |-> << "a", "q", "dst" >>, S_shr_words |-> << "a", "q", "dst" >>,
      shl_words |-> << "a", "q", "dst" >> ]

\* the index of the argument of routine name with the given role, or -1
ArgWith(name, role) ==
    IF \E i \in 1 .. Len(Roles[name]) : Roles[name][i] = role
    THEN (CHOOSE i \in 1 .. Len(Roles[name]) : Roles[name][i] = role) - 1
    ELSE 0 - 1

PtrArgs(name) == { i - 1 : i \in { j \in 1 .. Len(Roles[name]) : Roles[name][j] # "q" } }

InitMem(name, k, x) ==
    [ i \in PtrArgs(name) |->
        CASE Roles[name][i + 1] = "a" -> x.a
          [] Roles[name][i + 1] = "b" -> x.b
          [] Roles[name][i + 1] = "dst" -> [ j \in 1 .. k |-> Undef ]
          [] Roles[name][i + 1] = "dst2" -> [ j \in 1 .. (2 * k) |-> Undef ] ]

\* the value the caller passes as argument i
ArgVal(name, i, x) == IF Roles[name][i + 1] = "q" THEN x.q ELSE PtrOf(i)

\* registers on entry to the standalone routine: the SysV argument registers
InitRegsSysv(name, x) ==
    [ r \in PhysRegs |->
        IF \E i \in 0 .. (Len(Roles[name]) - 1) : name_by_index(SYSV_ABI_ARG_REGS, i) = r
        THEN ArgVal(name, index_by_name(SYSV_ABI_ARG_REGS, r), x)
        ELSE Undef ]

\* registers on entry to the asm statement under binding bd
InitRegsInline(name, x, bd) ==
    [ r \in PhysRegs |->
        IF \E i \in 0 .. (Len(Roles[name]) - 1) :
               ArgKeyword(i) \in DOMAIN bd /\ bd[ArgKeyword(i)] = r
        THEN ArgVal(name, CHOOSE i \in 0 .. (Len(Roles[name]) - 1) :
                              ArgKeyword(i) \in DOMAIN bd /\ bd[ArgKeyword(i)] = r, x)
        ELSE IF "zero" \in DOMAIN bd /\ bd["zero"] = r THEN 0
        ELSE Undef ]

\* ---------------------------------------------------------------- state

VARIABLES
    func,        \* the catalog entry being run (GeneratedFunc.name)
    limbs,       \* its limb count n
    cap_bmi2,    \* the answer of the capability probe
    inp,         \* the caller's inputs: arrays a and b, limb q
    phase,       \* "sysv": the standalone routine runs; "inline": the asm
                 \* statement runs; "done"
    binding,     \* inline: the registers bound to the operands
    pc,          \* the next line of the program
    cpu_regs, flags, mem, fault,   \* the machine
    res_sysv,    \* what the standalone routine left: memory, return value
    res_inline,  \* what the asm statement left
    emitter,     \* the generator: the emitter handed to the callback
    frame,       \* the generator: the local variables of the callback
    todo,        \* the generator: the calls the callback has yet to make
    tail,        \* the generator: the constraint tail emit_epilogue printed
    process      \* the generator: the emitters constructed so far in this
                 \* process and the labels gen_label returned, in order

vars ==
    << func, limbs, cap_bmi2, inp, phase, binding, pc, cpu_regs, flags, mem, fault, res_sysv,
       res_inline, emitter, frame, todo, tail, process >>

\* nothing printed yet after the asm lines
NoTail == [printed |-> FALSE, outputs |-> << >>, inputs |-> << >>, clobbers |-> {}]

\* gen_label's format strings, as characters: f'.L{...}' and f'.L!=_{...}'
LabelPrefix(kind) ==
    IF kind = "inline" THEN << ".", "L", "!", "=", "_" >> ELSE << ".", "L" >>

\* the label gen_label returns when its counter has become number
LabelText(kind, number) == [prefix |-> LabelPrefix(kind), number |-> number]

\* the first emitter of the process is constructed, no label returned yet
FirstEmitter == [emitters |-> 1, labels |-> << >>]

\* the labels after the call st of emitter e left it as e2: gen_label
\* returns the label of the new counter value
LabelsAfter(e2, st) ==
    IF st.do = "gen_label" /\ e2.err = ""
    THEN [process EXCEPT !.labels = Append(@, [emitter |-> process.emitters,
                                              text |-> LabelText(e2.kind, e2.label_counter)])]
    ELSE process

\* the generator is not being looked at: the routines run were generated before
GeneratorOver ==
    /\ process = FirstEmitter
    /\ emitter = NewEmitter("sysv", 0)
    /\ frame = NoLocals
    /\ todo = << >>
    /\ tail = NoTail

NoResult == [done |-> FALSE, mem |-> << >>, ret |-> Undef, fault |-> ""]

\* what was generated for the routine being run
Code == GeneratedFor(func, limbs, cap_bmi2)

\* the program of phase ph in g, placeholders not yet replaced
ProgOf(g, ph) == IF ph = "inline" THEN g.inline.out ELSE g.sysv.out

\* the program of the current phase
Prog == ProgOf(Code, phase)

\* line ins as the machine sees it
Seen(ins) ==
    IF phase = "inline"
    THEN [ op |-> ins.op, a |-> ResolveOperand(ins.a, binding),
           b |-> ResolveOperand(ins.b, binding), c |-> ResolveOperand(ins.c, binding) ]
    ELSE ins

\* the line at pc, as the machine sees it
CurIns == Seen(Prog[pc])

Machine == [regs |-> cpu_regs, flags |-> flags, mem |-> mem, fault |-> fault]

SetMachine(st) ==
    /\ cpu_regs' = st.regs
    /\ flags' = st.flags
    /\ mem' = st.mem
    /\ fault' = st.fault

\* the state on entry to routine name of width k, inputs x
Setup(name, k, bm, x) ==
    /\ func = name
    /\ limbs = k
    /\ cap_bmi2 = bm
    /\ inp = x
    /\ phase = "sysv"
    /\ binding = EmptyFun
    /\ pc = 1
    /\ cpu_regs = InitRegsSysv(name, x)
    /\ flags = UndefFlags
    /\ mem = InitMem(name, k, x)
    /\ fault = IF GeneratedFor(name, k, bm).sysv.err # "" THEN "not generated" ELSE ""
    /\ res_sysv = NoResult
    /\ res_inline = NoResult
    /\ GeneratorOver

\* One line of prog, at position p, executed on machine st: the machine and
\* the position after it.  jnc goes to its label when the carry flag is clear.
StepLine(prog, ins, st, p) ==
    IF ins.op = "jnc"
    THEN IF st.flags.cf = Undef
         THEN [st |-> Fault(st, "undefined flag read"), pc |-> p]
         ELSE [st |-> st, pc |-> IF st.flags.cf = 0 THEN LabelPos(prog, ins.a.v) ELSE p + 1]
    ELSE [st |-> Exec(st, ins), pc |-> p + 1]

\* the machine and the position become those of r
Becomes(r) ==
    /\ SetMachine(r.st)
    /\ pc' = r.pc

\* the processor executes the next line of prog
StepIn(prog) ==
    /\ phase \in {"sysv", "inline"}
    /\ fault = ""
    /\ pc <= Len(prog)
    /\ prog[pc].op # "retq"
    /\ Becomes(StepLine(prog, Seen(prog[pc]), Machine, pc))
    /\ UNCHANGED << func, limbs, cap_bmi2, inp, phase, binding, res_sysv, res_inline >>
    /\ UNCHANGED << emitter, frame, todo, tail, process >>

Step == StepIn(Prog)

\* What a caller sees when a routine is over: memory and the returned limb.
\* After a trap there is no caller left to see anything but the trap.
ResultOf(name, st, ret_reg) ==
    IF st.fault # ""
    THEN [done |-> TRUE, mem |-> << >>, ret |-> Undef, fault |-> st.fault]
    ELSE [ done |-> TRUE, mem |-> st.mem, fault |-> "",
           ret |-> IF Protos[name].ret = "void" \/ ret_reg = "" THEN Undef ELSE st.regs[ret_reg] ]

\* retq (or a trap): the standalone routine is over; the same inputs are then
\* given to the asm statement, with registers of the compiler's choice
ReturnIn(g) ==
    /\ phase = "sysv"
    /\ fault # "" \/ (pc <= Len(g.sysv.out) /\ g.sysv.out[pc].op = "retq")
    /\ res_sysv' = ResultOf(func, Machine, "rax")
    /\ \E bd \in g.binds :
           /\ binding' = bd
           /\ cpu_regs' = InitRegsInline(func, inp, bd)
    /\ phase' = "inline"
    /\ pc' = 1
    /\ flags' = UndefFlags
    /\ mem' = InitMem(func, limbs, inp)
    /\ fault' = IF g.inline.err # "" THEN "not generated" ELSE ""
    /\ UNCHANGED << func, limbs, cap_bmi2, inp, res_inline >>
    /\ UNCHANGED << emitter, frame, todo, tail, process >>

Return == ReturnIn(Code)

\* the end of the asm statement (or a trap): the C function returns ret
AsmEnd ==
    /\ phase = "inline"
    /\ fault # "" \/ pc > Len(Prog)
    /\ res_inline' = ResultOf(func, Machine, IF "ret" \in DOMAIN binding THEN binding["ret"] ELSE "")
    /\ phase' = "done"
    /\ UNCHANGED << func, limbs, cap_bmi2, inp, binding, pc, cpu_regs, flags, mem, fault, res_sysv >>
    /\ UNCHANGED << emitter, frame, todo, tail, process >>

Next == Step \/ Return \/ AsmEnd

\* ------------------------------------------------ the generator at work

\* nothing runs while the generator writes a routine
NothingRuns ==
    /\ inp = [a |-> << >>, b |-> << >>, q |-> 0]
    /\ phase = "generate"
    /\ binding = EmptyFun
    /\ pc = 1
    /\ cpu_regs = EmptyFun
    /\ flags = UndefFlags
    /\ mem = << >>
    /\ fault = ""
    /\ res_sysv = NoResult
    /\ res_inline = NoResult

\* gen_asm / gen_inline_asm at `emitter = ...Emitter()`, about to call
\* func.callback(emitter) for the entry called name
Entry(name, k, bm, kind) ==
    /\ func = name
    /\ limbs = k
    /\ cap_bmi2 = bm
    /\ emitter = NewEmitter(kind, 0)
    /\ frame = NoLocals
    /\ todo = Callback(name, k, bm, kind = "inline")
    /\ tail = NoTail
    /\ process = FirstEmitter
    /\ NothingRuns

\* func.callback(emitter): the next call the template makes on its emitter
CallbackStep ==
    /\ phase = "generate"
    /\ todo # << >>
    /\ emitter.err = ""
    /\ LET s == Statement([e |-> emitter, locals |-> frame], Head(todo))
       IN  /\ emitter' = s.e
           /\ frame' = s.locals
           /\ process' = LabelsAfter(s.e, Head(todo))
    /\ todo' = Tail(todo)
    /\ UNCHANGED << func, limbs, cap_bmi2, inp, phase, binding, pc, cpu_regs, flags, mem, fault,
                    res_sysv, res_inline, tail >>

\* the constraint tail as printed
Printed(t) ==
    [printed |-> TRUE, outputs |-> t.outputs, inputs |-> t.inputs, clobbers |-> t.clobbers]

\* emitter.emit_epilogue() once the callback has returned; gen_asm then
\* prints retq
Epilogue ==
    /\ phase = "generate"
    /\ todo = << >>
    /\ emitter.err = ""
    /\ ~ tail.printed
    /\ IF IsInline(emitter)
       THEN /\ tail' = Printed(emit_epilogue(emitter))
            /\ emitter' = emitter
       ELSE /\ tail' = Printed(NoTail)
            /\ emitter' = emit(emitter, Ins0("retq"))
    /\ UNCHANGED << func, limbs, cap_bmi2, inp, phase, binding, pc, cpu_regs, flags, mem, fault,
                    res_sysv, res_inline, frame, todo, process >>

NextGen == CallbackStep \/ Epilogue

\* ------------------------------------------ a routine called to its end

\* the standalone routine run from line p until retq or a trap
RECURSIVE RunSysv(_, _, _)
RunSysv(prog, st, p) ==
    IF st.fault # "" \/ p > Len(prog) \/ prog[p].op = "retq"
    THEN st
    ELSE LET r == StepLine(prog, prog[p], st, p)
         IN  RunSysv(prog, r.st, r.pc)

\* what a C caller gets from asm_<name>_<k> on inputs x
Call(name, k, bm, x) ==
    ResultOf(name,
             RunSysv(GeneratedFor(name, k, bm).sysv.out,
                     [ regs |-> InitRegsSysv(name, x), flags |-> UndefFlags,
                       mem |-> InitMem(name, k, x), fault |-> "" ], 1),
             "rax")

\* ----------------------------------------------------------- the inputs

\* limb values that sit at the edges of carries, borrows and signs
Corpus == {0, 1, HalfBase, Base - 1}

\* limbs of alternating bits, 0101.. and 1010..
Alt == (Base - 1) \div 3

\* up to this width every array over Corpus is tried
FullN == 2

\* an array whose first p limbs are x and whose other limbs are y
StepArray(k, p, x, y) == [ i \in 1 .. k |-> IF i <= p THEN x ELSE y ]

\* arrays with one edge in the middle: a low part of x's under y's
ArraysA(k) ==
    IF k <= FullN
    THEN [ 1 .. k -> Corpus ]
    ELSE { StepArray(k, p, x, y) : p \in {1, k - 1}, x \in Corpus, y \in Corpus }

ArraysB(k) ==
    IF k <= FullN
    THEN [ 1 .. k -> Corpus ]
    ELSE { StepArray(k, 1, x, y) : x \in {0, 1, Base - 1}, y \in {0, Base - 1} }

\* fewer of them, for the routines whose code is long
ArraysFew(k) ==
    IF k <= FullN
    THEN [ 1 .. k -> Corpus ]
    ELSE { StepArray(k, 1, x, y) : x \in {1, Base - 1}, y \in {0, HalfBase, Base - 1} }

\* arrays whose limbs all differ, the top one with and without the sign bit
Ramp(k) == [ i \in 1 .. k |-> i % Base ]

ArraysRamp(k) == { Ramp(k), [ i \in 1 .. k |-> (Base - 1) - Ramp(k)[i] ] }

\* arrays of mixed bits
ArraysBits(k) ==
    { StepArray(k, p, x, y) : p \in {1, k}, x \in {Alt, 2 * Alt, Base - 1}, y \in {1, HalfBase, Alt + 1} }

\* the word-shift amounts tried: the small ones, and large ones
ShiftAmounts == (0 .. Min(Base - 1, 2 * MaxN)) \cup {HalfBase, Base - 1}

Input(a, b, q) == [a |-> a, b |-> b, q |-> q]

Pairs(as, bs, qs) == { Input(a, b, q) : a \in as, b \in bs, q \in qs }

\* the inputs tried for routine name at width k
Inputs(name, k) ==
    CASE name \in {"add", "sub"} -> Pairs(ArraysA(k), ArraysB(k), {0})
      [] name \in {"add_masked", "sub_masked"} ->
             Pairs(ArraysFew(k), ArraysB(k), {0, Alt, Base - 1})
      [] name \in {"add_q", "sub_q", "add_q_leaky", "sub_q_leaky"} ->
             Pairs(ArraysA(k), { << >> }, Corpus)
      [] name = "negate" -> Pairs(ArraysA(k), { << >> }, {0})
      [] name \in {"cmplt", "cmple", "S_cmplt", "S_cmple", "cmpeq"} ->
             Pairs(ArraysA(k), ArraysA(k), {0})
      [] name = "mul_q" -> Pairs(ArraysA(k), { << >> }, Corpus \cup {Alt, Base - 2})
      [] name \in {"div_q", "mod_q"} -> Pairs(ArraysA(k), { << >> }, Corpus \cup {2, Alt, Base - 2})
      [] name \in {"mul", "mul_lo"} -> Pairs(ArraysFew(k), ArraysB(k), {0})
      [] name \in {"shr", "S_shr", "shl", "shr_nz", "S_shr_nz", "shl_nz"} ->
             Pairs(ArraysBits(k), { << >> }, 0 .. (WordBits - 1))
      [] name \in {"shr_words", "S_shr_words", "shl_words"} ->
             Pairs(ArraysRamp(k), { << >> }, ShiftAmounts)

\* every run of the routines in names at the widths in ks
InitOf(names, ks) ==
    \E name \in names, k \in ks, bm \in BOOLEAN :
        /\ bm \in Bmi2Answers(name)
        /\ \E x \in Inputs(name, k) : Setup(name, k, bm, x)

\* the two emitter classes
Backends == {"sysv", "inline"}

\* the generator about to write any of the routines in names at a width in ks
InitGenOf(names, ks) ==
    \E name \in names, k \in ks, bm \in BOOLEAN, kind \in Backends :
        /\ bm \in Bmi2Answers(name)
        /\ Entry(name, k, bm, kind)

\* ------------------------------------- the calls a template may make

\* the most arguments a template records
MaxArgs == 2

\* the most lines write_retval is let to emit
MaxLines == 1

\* the registers an operand is forced into
ForcedNames == {"rax", "rdx"}

\* the registers a template takes by name
TakenNames == {"rax", "rdx", "r8"}

\* a call on the emitter of the asm statement that leaves it as e2
EmitterCall(e2) ==
    /\ phase = "generate" /\ todo = << >> /\ ~ tail.printed
    /\ IsInline(emitter) /\ emitter.err = ""
    /\ emitter' = e2
    /\ UNCHANGED << func, limbs, cap_bmi2, inp, phase, binding, pc, cpu_regs, flags, mem,
                    fault, res_sysv, res_inline, frame, todo, tail, process >>

\* emitter.take_arg_reg(index, write, into_reg_name) with the next index
CallTakeArgReg ==
    /\ Len(emitter.args) < MaxArgs
    /\ \E write \in BOOLEAN, into_reg_name \in ForcedNames \cup {None} :
           EmitterCall(take_arg_reg(emitter, Len(emitter.args), write, into_reg_name).e)

\* emitter.take_retval_reg(may_overwrite_taken)
CallTakeRetvalReg ==
    \E may_overwrite_taken \in BOOLEAN :
        /\ IsInline(emitter)
        /\ EmitterCall(take_retval_reg(emitter, may_overwrite_taken).e)

\* emitter.reg_store.take_by_name(name, write) of a free register
CallTakeByName ==
    \E name \in TakenNames, write \in BOOLEAN :
        /\ index_by_name(ALL_REGS, name) \in SeqToSet(emitter.free_indices)
        /\ EmitterCall(take_by_name(emitter, name, write).e)

\* emitter.write_retval(src_reg) with a register the template holds
CallWriteRetval ==
    \E name \in TakenNames :
        /\ Len(emitter.out) < MaxLines
        /\ index_by_name(ALL_REGS, name) \notin SeqToSet(emitter.free_indices)
        /\ EmitterCall(write_retval(emitter, RealReg(index_by_name(ALL_REGS, name))))

NextCalls ==
    \/ CallTakeArgReg
    \/ CallTakeRetvalReg
    \/ CallTakeByName
    \/ CallWriteRetval
    \/ Epilogue

\* a fresh InlineAsmEmitter, no template running
InitCalls ==
    /\ func = "mul_q" /\ limbs = 1 /\ cap_bmi2 = FALSE
    /\ emitter = NewEmitter("inline", 0)
    /\ frame = NoLocals /\ todo = << >> /\ tail = NoTail
    /\ process = FirstEmitter
    /\ NothingRuns

\* ------------------------------------------- the labels of one process

\* the most emitters the process constructs
MaxEmitters == 3

\* the most labels the process asks for
MaxLabels == 5

\* label_counter as it would be if the standalone emitter kept it in the
\* instance, as the inline one does
class_label_counter_own(e) == 0

\* the counter a newly constructed emitter starts from: the class attribute
\* SysvAbiFunctionEmitter.label_counter, which the emitters before it have
\* advanced, or the instance attribute InlineAsmEmitter.__init__ sets to 0
class_label_counter(e) == IF IsInline(e) THEN 0 ELSE e.label_counter

\* Emitter.emit of the inline emitter on a text: % is doubled, then ! is
\* made %
RECURSIVE inline_emit_text(_)
inline_emit_text(text) ==
    IF Len(text) = 0
    THEN << >>
    ELSE (CASE Head(text) = "%" -> << "%", "%" >>
            [] Head(text) = "!" -> << "%" >>
            [] OTHER -> << Head(text) >>)
         \o inline_emit_text(Tail(text))

\* the loop of gen_asm / gen_inline_asm comes to its next entry and
\* constructs that entry's emitter
NextEmitter ==
    /\ phase = "generate" /\ todo = << >> /\ emitter.err = ""
    /\ process.emitters < MaxEmitters
    /\ emitter' = NewEmitter(emitter.kind, class_label_counter(emitter))
    /\ process' = [process EXCEPT !.emitters = @ + 1]
    /\ UNCHANGED << func, limbs, cap_bmi2, inp, phase, binding, pc, cpu_regs, flags, mem,
                    fault, res_sysv, res_inline, frame, todo, tail >>

\* the callback of the entry calls emitter.gen_label()
CallGenLabel ==
    /\ phase = "generate" /\ todo = << >> /\ emitter.err = ""
    /\ Len(process.labels) < MaxLabels
    /\ emitter' = gen_label(emitter).e
    /\ process' = LabelsAfter(gen_label(emitter).e, GenLabel("label"))
    /\ UNCHANGED << func, limbs, cap_bmi2, inp, phase, binding, pc, cpu_regs, flags, mem,
                    fault, res_sysv, res_inline, frame, todo, tail >>

NextLabels == NextEmitter \/ CallGenLabel

\* a process of either backend with its first emitter constructed
InitLabels ==
    /\ func = "add_q_leaky" /\ limbs = 1 /\ cap_bmi2 = FALSE
    /\ \E kind \in Backends : emitter = NewEmitter(kind, 0)
    /\ frame = NoLocals /\ todo = << >> /\ tail = NoTail
    /\ process = FirstEmitter
    /\ NothingRuns

\* --------------------------------------------------- the specifications

\* one run of gen_asm or gen_inline_asm: emitters constructed one after
\* another, each asked for labels
SpecLabels == InitLabels /\ [][NextLabels]_vars


\* the asm statement closed after any calls that record arguments, the
\* return operand and written registers
SpecCalls == InitCalls /\ [][NextCalls]_vars


\* the generator writing every routine of the catalog, for either backend
InitGen == InitGenOf(FuncNames, Widths)

SpecGen == InitGen /\ [][NextGen]_vars

\* every routine of the catalog, at every width, on its inputs
InitAll == InitOf(FuncNames, Widths)

SpecAll == InitAll /\ [][Next]_vars

AorsFuncs ==
    {"add", "sub", "add_masked", "sub_masked", "negate",
     "add_q", "sub_q", "add_q_leaky", "sub_q_leaky"}

InitAors == InitOf(AorsFuncs, Widths)

SpecAors == InitAors /\ [][Next]_vars

InitMulQ == InitOf({"mul_q"}, Widths)

SpecMulQ == InitMulQ /\ [][Next]_vars

MulFuncs == {"mul", "mul_lo"}

InitMul == InitOf(MulFuncs, Widths)

SpecMul == InitMul /\ [][Next]_vars

DivFuncs == {"div_q", "mod_q"}

InitDiv == InitOf(DivFuncs, Widths)

SpecDiv == InitDiv /\ [][Next]_vars

ShrWordsFuncs == {"shr_words", "S_shr_words"}

InitShiftWords == InitOf(ShrWordsFuncs, Widths)

SpecShiftWords == InitShiftWords /\ [][Next]_vars

InitShift == InitOf({"shr"}, Widths)

\* the bit shifts that take the BMI2 lowering when the probe allows it
NzFuncs == {"shr_nz", "S_shr_nz", "shl_nz"}

InitShiftNz == InitOf(NzFuncs, Widths)

SpecShiftNz == InitShiftNz /\ [][Next]_vars

SpecShift == InitShift /\ [][Next]_vars

InitCmp == InitOf({"cmplt"}, Widths)

SpecCmp == InitCmp /\ [][Next]_vars

InitCmpeq == InitOf({"cmpeq"}, Widths)

SpecCmpeq == InitCmpeq /\ [][Next]_vars

InitSCmp == InitOf({"S_cmplt"}, Widths)

SpecSCmp == InitSCmp /\ [][Next]_vars

\* ------------------------------------------- what the results should be

\* the limb a routine returns for true (~0) and for false
Mask(b) == IF b THEN Base - 1 ELSE 0

\* the integer a little-endian limb array stands for
RECURSIVE ValueOf(_)
ValueOf(a) == IF Len(a) = 0 THEN 0 ELSE Head(a) + Base * ValueOf(Tail(a))

\* k + 1 limbs fit the integers of the checker
Fits(k) == (k + 1) * WordBits <= 28

\* the carry (borrow) out of the low i limbs of a + b (a - b)
RECURSIVE CarryOut(_, _, _, _)
CarryOut(a, b, is_add, i) ==
    IF i = 0
    THEN 0
    ELSE LET c == CarryOut(a, b, is_add, i - 1)
             t == IF is_add THEN a[i] + b[i] + c ELSE a[i] - b[i] - c
         IN  IF t >= Base \/ t < 0 THEN 1 ELSE 0

\* a + b or a - b, limb by limb: the low Len(a) limbs and the carry out
RefAors(a, b, is_add) ==
    [ limbs |-> [ i \in 1 .. Len(a) |->
                    LET c == CarryOut(a, b, is_add, i - 1)
                    IN  (IF is_add THEN a[i] + b[i] + c ELSE a[i] - b[i] - c) % Base ],
      carry |-> CarryOut(a, b, is_add, Len(a)) ]

Zeros(k) == [ i \in 1 .. k |-> 0 ]

IsAdd(name) == name \in {"add", "add_masked", "add_q", "add_q_leaky"}

\* the two operands of the sum or difference an aors routine is to form
AorsLeft(name, x) == IF name = "negate" THEN Zeros(Len(x.a)) ELSE x.a

AorsRight(name, x) ==
    CASE name \in {"add", "sub"} -> x.b
      [] name \in {"add_masked", "sub_masked"} ->
             [ i \in 1 .. Len(x.a) |-> Bitwise(x.b[i], x.q, "and", WordBits) ]
      [] name = "negate" -> x.a
      [] OTHER -> [ i \in 1 .. Len(x.a) |-> IF i = 1 THEN x.q ELSE 0 ]

\* the array of the result: the second argument of negate, else a itself
AorsDest(name) == IF name = "negate" THEN 1 ELSE 0

\* result res of routine name on inputs x is the true sum or difference
\* modulo Base^n, with ~0 returned exactly when the true result does not
\* fit n limbs
AorsResultRight(name, x, res) ==
    LET k == Len(x.a)
        l == AorsLeft(name, x)
        r == AorsRight(name, x)
        ref == RefAors(l, r, IsAdd(name))
        true == IF IsAdd(name) THEN ValueOf(l) + ValueOf(r) ELSE ValueOf(l) - ValueOf(r)
    IN  /\ res.fault = ""
        /\ res.mem[AorsDest(name)] = ref.limbs
        /\ res.ret = Mask(ref.carry = 1)
        /\ Fits(k) => /\ ValueOf(res.mem[AorsDest(name)]) = true % (Base ^ k)
                      /\ (res.ret = Base - 1) <=> (true < 0 \/ true >= Base ^ k)
                      /\ res.ret \in {0, Base - 1}

\* the carry out of the low i limbs of a * m
RECURSIVE MulQCarry(_, _, _)
MulQCarry(a, m, i) ==
    IF i = 0 THEN 0 ELSE (a[i] * m + MulQCarry(a, m, i - 1)) \div Base

\* a * m, limb by limb: the low Len(a) limbs and the limb above them
RefMulQ(a, m) ==
    [ limbs |-> [ i \in 1 .. Len(a) |-> (a[i] * m + MulQCarry(a, m, i - 1)) % Base ],
      carry |-> MulQCarry(a, m, Len(a)) ]

MulQResultRight(x, res) ==
    LET k == Len(x.a)
        ref == RefMulQ(x.a, x.q)
    IN  /\ res.fault = ""
        /\ res.mem[2] = ref.limbs
        /\ res.ret = ref.carry
        /\ Fits(k) => res.ret * (Base ^ k) + ValueOf(res.mem[2]) = ValueOf(x.a) * x.q

\* the sum of the limb products a[j] * b[c + 1 - j], j <= i, of column c
RECURSIVE ColumnSum(_, _, _, _)
ColumnSum(a, b, c, i) ==
    IF i = 0
    THEN 0
    ELSE ColumnSum(a, b, c, i - 1)
         + (IF (c + 1 - i) \in 1 .. Len(b) THEN a[i] * b[c + 1 - i] ELSE 0)

\* the carry out of the low c columns of a * b
RECURSIVE MulCarry(_, _, _)
MulCarry(a, b, c) ==
    IF c = 0 THEN 0 ELSE (ColumnSum(a, b, c, Len(a)) + MulCarry(a, b, c - 1)) \div Base

\* the 2n limbs of a * b, column by column
RefMul(a, b) ==
    [ c \in 1 .. (2 * Len(a)) |-> (ColumnSum(a, b, c, Len(a)) + MulCarry(a, b, c - 1)) % Base ]

MulResultRight(name, x, res) ==
    LET k == Len(x.a)
        out == IF name = "mul" THEN 2 * k ELSE k
    IN  /\ res.fault = ""
        /\ res.mem[2] = SubSeq(RefMul(x.a, x.b), 1, out)
        /\ Fits(2 * k) => ValueOf(res.mem[2]) = (ValueOf(x.a) * ValueOf(x.b)) % (Base ^ out)

\* the memory operands whose cells an instruction reads
MemReads(ins) ==
    { o \in (IF ins.op = "movq" THEN {ins.a} ELSE {ins.a, ins.b, ins.c}) : o.k = "mem" }

\* the line about to run reads no cell that holds nothing yet
ReadsOnlyWritten ==
    (phase \in {"sysv", "inline"} /\ fault = "" /\ pc <= Len(Prog)) =>
        \A o \in MemReads(CurIns) : AddrOk(Machine, o) => Read(Machine, o) # Undef

\* quot * m + r = a, limb by limb, with r a proper remainder
DivIdentity(a, m, quot, r) ==
    LET p == RefMulQ(quot, m)
        rr == [ i \in 1 .. Len(a) |-> IF i = 1 THEN r ELSE 0 ]
        t == RefAors(p.limbs, rr, TRUE)
    IN  /\ r >= 0 /\ r < m
        /\ p.carry = 0
        /\ t.carry = 0
        /\ t.limbs = a
        /\ Fits(Len(a)) => ValueOf(quot) * m + r = ValueOf(a)

\* a divq about to run has a defined high half below its divisor
DivqInRange ==
    (phase \in {"sysv", "inline"} /\ fault = "" /\ pc <= Len(Prog) /\ CurIns.op = "divq") =>
        /\ IsData(Read(Machine, R_rdx))
        /\ IsData(Read(Machine, CurIns.a))
        /\ Read(Machine, R_rdx) < Read(Machine, CurIns.a)

\* the only memory operand of any line is the source of a movq
NoStore(prog) ==
    \A i \in 1 .. Len(prog) :
        /\ prog[i].b.k # "mem"
        /\ prog[i].c.k # "mem"
        /\ prog[i].a.k = "mem" => prog[i].op = "movq"

DivResultRight(name, x, res) ==
    /\ res.fault = ""
    /\ IF name = "div_q"
       THEN DivIdentity(x.a, x.q, res.mem[2], res.ret)
       ELSE /\ res.ret = Call("div_q", Len(x.a), FALSE, x).ret
            /\ res.mem = InitMem(name, Len(x.a), x)

\* a shifted right by w whole limbs, the vacated limbs filled with zeros or
\* with copies of the sign bit
RefShrWords(a, w, is_signed) ==
    LET k == Len(a)
        fill == IF is_signed /\ a[k] >= HalfBase THEN Base - 1 ELSE 0
    IN  [ i \in 1 .. k |-> IF i + w <= k THEN a[i + w] ELSE fill ]

ShrWordsResultRight(name, x, res) ==
    /\ res.fault = ""
    /\ res.mem[0] = x.a
    /\ res.mem[2] = RefShrWords(x.a, x.q, name = "S_shr_words")

\* a with its lowest c bits cleared
ClearLow(a, c) == [ a EXCEPT ![1] = @ - (@ % (2 ^ c)) ]

\* shl by the same count, applied to what shr wrote, gives a without its low bits
ShlUndoesShr(x, res) ==
    /\ res.fault = ""
    /\ LET back == Call("shl", Len(x.a), FALSE, Input(res.mem[2], << >>, x.q))
       IN  /\ back.fault = ""
           /\ back.mem[2] = ClearLow(x.a, x.q)

\* a < b as unsigned numbers, decided by the highest limb that differs
RECURSIVE LessFrom(_, _, _)
LessFrom(a, b, i) ==
    IF i = 0 THEN FALSE
    ELSE IF a[i] # b[i] THEN a[i] < b[i]
    ELSE LessFrom(a, b, i - 1)

RefLess(a, b) == LessFrom(a, b, Len(a))

\* the bitwise complement of a limb
BitNot(v) == (Base - 1) - v

\* what the standalone routine name returns for the arrays a and b
CmpCall(name, a, b) == Call(name, Len(a), FALSE, Input(a, b, 0)).ret

CmpltResultRight(x, res) ==
    /\ res.fault = ""
    /\ res.ret = BitNot(CmpCall("cmple", x.b, x.a))
    /\ res.ret = Mask(RefLess(x.a, x.b))
    /\ Fits(Len(x.a)) => (RefLess(x.a, x.b) <=> ValueOf(x.a) < ValueOf(x.b))

CmpeqResultRight(x, res) ==
    /\ res.fault = ""
    /\ res.ret = Mask(\A i \in 1 .. Len(x.a) : x.a[i] = x.b[i])

\* ------------------------------------------------------------ the claims

\* C1: for every routine of the catalog, every limb count and the same BMI2
\* answer, the standalone routine and the asm statement, run on the same
\* input arrays and scalars, leave the same limbs in memory and return the
\* same value.
BackendsAgree == phase = "done" => res_sysv = res_inline

\* a run of a routine the two backends group differently (m = 4 and m = 8),
\* whose texts differ, has ended with a carry returned
WitnessBackendsAgree ==
    /\ phase = "done"
    /\ func = "add_masked"
    /\ limbs > MSysv /\ limbs <= MInline
    /\ Len(Code.sysv.out) # Len(Code.inline.out) + 1
    /\ res_sysv.fault = ""
    /\ res_sysv.ret = Base - 1
    /\ res_inline.ret = Base - 1

\* C2: add, sub, add_q, sub_q (leaky or not), add_masked, sub_masked (n <= m
\* and n > m) and negate store the true result modulo 2^(64n) and return ~0
\* exactly when the true result lies outside the n-limb range, else 0.
AorsCorrect ==
    (phase = "done" /\ func \in AorsFuncs) =>
        /\ AorsResultRight(func, inp, res_sysv)
        /\ AorsResultRight(func, inp, res_inline)

\* a masked subtraction over more limbs than either backend's group size has
\* ended with a borrow out of the top limb
WitnessAorsCorrect ==
    /\ phase = "done"
    /\ func = "sub_masked"
    /\ limbs > MInline
    /\ inp.q = Alt
    /\ res_sysv.ret = Base - 1
    /\ res_inline.ret = Base - 1

\* C3: mul_q, in the mulq lowering and in the mulx (BMI2) lowering, writes
\* dst[0..n) and returns a limb c with c * 2^(64n) + dst = a * m.
MulQCorrect ==
    (phase = "done" /\ func = "mul_q") =>
        /\ MulQResultRight(inp, res_sysv)
        /\ MulQResultRight(inp, res_inline)

\* the mulx lowering has run over the largest width and returned a carry limb
WitnessMulQCorrect ==
    /\ phase = "done"
    /\ func = "mul_q"
    /\ cap_bmi2
    /\ \E i \in 1 .. Len(Code.sysv.out) :
           Code.sysv.out[i].op = "mulxq"
    /\ limbs = MaxN
    /\ res_sysv.ret > 1
    /\ res_inline.ret > 1

\* C4: mul, in both lowerings, writes the 2n-limb product a * b and reads no
\* limb of dst it has not written; mul_lo writes the low n limbs of that
\* product, so that mul(a, b) mod 2^(64n) = mul_lo(a, b).
MulCorrect ==
    (func \in MulFuncs) =>
        /\ ReadsOnlyWritten
        /\ phase = "done" =>
               /\ MulResultRight(func, inp, res_sysv)
               /\ MulResultRight(func, inp, res_inline)
               /\ func = "mul" =>
                      SubSeq(res_sysv.mem[2], 1, limbs) = Call("mul_lo", limbs, cap_bmi2, inp).mem[2]

\* mul has written a product whose top limb is not zero, at the largest width
WitnessMulCorrect ==
    /\ phase = "done"
    /\ func = "mul"
    /\ limbs = MaxN
    /\ res_sysv.fault = ""
    /\ res_sysv.mem[2][2 * limbs] # 0
    /\ res_inline.mem[2][2 * limbs] # 0
    /\ Call("mul_lo", limbs, cap_bmi2, inp).mem[2][limbs] # 0

\* C5: for a nonzero limb m, div_q stores a quotient q and returns r with
\* q * m + r = a and 0 <= r < m, every divq running with a high half below m;
\* mod_q returns the same r and has no line that stores to memory.
DivCorrect ==
    (func \in DivFuncs /\ inp.q # 0) =>
        /\ DivqInRange
        /\ func = "mod_q" =>
               /\ NoStore(Code.sysv.out)
               /\ NoStore(Code.inline.out)
        /\ phase = "done" =>
               /\ DivResultRight(func, inp, res_sysv)
               /\ DivResultRight(func, inp, res_inline)

\* div_q has divided the widest number by a limb above 2, leaving a nonzero
\* remainder and a quotient with nonzero lowest and highest limbs
WitnessDivCorrect ==
    /\ phase = "done"
    /\ func = "div_q"
    /\ limbs = MaxN
    /\ inp.q > 2
    /\ res_sysv.fault = ""
    /\ res_sysv.ret # 0
    /\ res_inline.ret = res_sysv.ret
    /\ res_sysv.mem[2][1] # 0
    /\ res_sysv.mem[2][limbs] # 0

ShrThenShl ==
    (phase = "done" /\ func = "shr") =>
        /\ ShlUndoesShr(inp, res_sysv)
        /\ ShlUndoesShr(inp, res_inline)

\* shr has shifted out set bits of the widest number by the largest count
WitnessShrThenShl ==
    /\ phase = "done"
    /\ func = "shr"
    /\ limbs = MaxN
    /\ inp.q = WordBits - 1
    /\ inp.a[1] % (2 ^ inp.q) # 0
    /\ res_sysv.fault = ""
    /\ res_sysv.mem[2] # inp.a
    /\ Call("shl", limbs, FALSE, Input(res_sysv.mem[2], << >>, inp.q)).mem[2] # inp.a

\* C8: for distinct a and b read as unsigned numbers, cmplt(a, b) is the
\* bitwise complement of cmple(b, a), and is all ones when a < b and 0
\* otherwise.
UnsignedCmpLaw ==
    (phase = "done" /\ func = "cmplt" /\ inp.a # inp.b) =>
        /\ CmpltResultRight(inp, res_sysv)
        /\ CmpltResultRight(inp, res_inline)

\* cmplt has answered all ones for two numbers of the largest width whose
\* top limbs are equal, so that the borrow of lower limbs decided
WitnessUnsignedCmpLaw ==
    /\ phase = "done"
    /\ func = "cmplt"
    /\ limbs = MaxN
    /\ inp.a[limbs] = inp.b[limbs]
    /\ inp.a[1] # inp.b[1]
    /\ res_sysv.ret = Base - 1
    /\ res_inline.ret = Base - 1
    /\ CmpCall("cmple", inp.b, inp.a) = 0

\* C9: cmpeq returns all ones if a[i] = b[i] for every i in 0 .. n-1, and 0
\* otherwise.
CmpeqCorrect ==
    (phase = "done" /\ func = "cmpeq") =>
        /\ CmpeqResultRight(inp, res_sysv)
        /\ CmpeqResultRight(inp, res_inline)

\* cmpeq has answered all ones for two equal numbers of the largest width
\* that are not zero
WitnessCmpeqCorrect ==
    /\ phase = "done"
    /\ func = "cmpeq"
    /\ limbs = MaxN
    /\ inp.a = inp.b
    /\ inp.a[limbs] # 0
    /\ res_sysv.ret = Base - 1
    /\ res_inline.ret = Base - 1

\* C10: for distinct a and b read as two's-complement numbers, S_cmplt(a, b)
\* is the bitwise complement of S_cmple(b, a), as for the unsigned routines.
SignedCmpLaw ==
    (phase = "done" /\ func = "S_cmplt" /\ inp.a # inp.b) =>
        /\ res_sysv.fault = ""
        /\ res_sysv.ret = BitNot(CmpCall("S_cmple", inp.b, inp.a))
        /\ res_inline.ret = BitNot(CmpCall("S_cmple", inp.b, inp.a))

\* --------------------------------------------- the generator's bookkeeping

\* the callback has returned and emit_epilogue has not yet run
TemplateReturned == phase = "generate" /\ todo = << >> /\ emitter.err = "" /\ ~ tail.printed

\* the pool indices of the register that carries the return value: rax for
\* the standalone routine, the forced register of [ret] for the asm statement
ReturnOperand(e) ==
    IF IsInline(e)
    THEN IF e.retval_set /\ e.retval # "" THEN {index_by_name(ALL_REGS, e.retval)} ELSE {}
    ELSE {index_by_name(ALL_REGS, "rax")}

\* the indices free in the pool of e
FreeSet(e) == SeqToSet(e.free_indices)

\* C11: when a routine template returns, the free set of the pool is the one
\* the emitter was created with, but for the register that carries the
\* return value.
PoolRestored ==
    TemplateReturned =>
        FreeSet(emitter) \cup ReturnOperand(emitter) = FreeSet(NewEmitter(emitter.kind, 0))

\* ------------------------------------------- what the asm lines write

\* the operands a line writes (AT&T order: the destination comes last)
Destinations(ins) ==
    CASE ins.op \in {"addq", "adcq", "subq", "sbbq", "andq", "orq", "xorq", "xorl", "shlq", "shrq",
                     "sarq", "imulq", "movq", "movzbq", "cmovaq", "cmovnzq"} -> {ins.b}
      [] ins.op \in {"shrdq", "shldq", "shrxq", "shlxq", "sarxq"} -> {ins.c}
      [] ins.op = "mulxq" -> {ins.b, ins.c}
      [] ins.op \in {"notq", "negq", "setl", "setge"} -> {ins.a}
      [] OTHER -> {}

\* the registers a line writes without naming them
ImplicitWrites(op) == IF op \in {"mulq", "divq"} THEN {"rax", "rdx"} ELSE {}

\* the register operands written by the lines of out
WrittenOperands(out) ==
    UNION { { o \in Destinations(out[i]) : o.k = "reg" } : i \in 1 .. Len(out) }

\* the registers written under their own names
NamedWrites(out) ==
    { RegName(o.reg) : o \in { x \in WrittenOperands(out) : x.reg.real } }
    \cup UNION { ImplicitWrites(out[i].op) : i \in 1 .. Len(out) }

\* the operands ![keyword] written
PlaceholderWrites(out) ==
    { o.reg.keyword : o \in { x \in WrittenOperands(out) : ~ x.reg.real } }

\* the asm statement of an inline routine has been printed to its end
InlinePrinted == phase = "generate" /\ IsInline(emitter) /\ tail.printed

\* register reg_name is tied to an output ("=" or "+") operand of tail t
OutputReg(t, reg_name) == \E c \in SeqToSet(t.outputs) : c.reg_name = reg_name

\* operand keyword is an output of tail t, or an input tied to the register
\* of an output
OutputOperand(t, keyword) ==
    \/ \E c \in SeqToSet(t.outputs) : c.keyword = keyword
    \/ \E c \in SeqToSet(t.inputs) : c.keyword = keyword /\ c.reg_name # "" /\ OutputReg(t, c.reg_name)

\* C12: every register an emitted line of an inline routine writes is, in the
\* constraint tail, an output or "+" operand or a clobber; and the clobber
\* list names "cc" and "memory".
WritesDeclared ==
    InlinePrinted =>
        /\ \A r \in NamedWrites(emitter.out) : r \in tail.clobbers \/ OutputReg(tail, r)
        /\ \A keyword \in PlaceholderWrites(emitter.out) : OutputOperand(tail, keyword)
        /\ {"cc", "memory"} \subseteq tail.clobbers

\* an asm statement that writes rax and rdx without naming them (mulq), a
\* scratch register and an operand
WitnessWritesDeclared ==
    /\ InlinePrinted
    /\ func = "mul"
    /\ limbs = 2
    /\ ~ cap_bmi2
    /\ {"rax", "rdx"} \subseteq tail.clobbers
    /\ NamedWrites(emitter.out) \ {"rax", "rdx"} # {}

\* the errors of the register store: take with nothing free (NoVacantReg),
\* and free_indices.remove of an index that is not free (ValueError)
PoolErrors == {"NoVacantReg", "ValueError: not free"}

\* C13: generation never fails for lack of a register: take never finds the
\* pool empty, and take_by_name / take_by_index never ask for a register
\* that is taken (rax is free when the return register is taken).
NeverOutOfRegisters == phase = "generate" => emitter.err \notin PoolErrors

\* a standalone routine that took the last free register, rax, as its
\* return register
WitnessNeverOutOfRegisters ==
    /\ phase = "generate"
    /\ ~ IsInline(emitter)
    /\ func = "add_masked"
    /\ limbs = MaxN
    /\ emitter.err = ""
    /\ "ret" \in DOMAIN frame
    /\ frame["ret"] = RealReg(index_by_name(ALL_REGS, "rax"))
    /\ emitter.free_indices = << >>

\* ------------------------------------------- the two lowerings of a shift

\* res holds the destination limbs the baseline lowering (%cl, shrd / shld)
\* of routine name writes for inputs x
AsBaseline(name, x, res) ==
    /\ res.fault = ""
    /\ res.mem[2] = Call(name, Len(x.a), FALSE, x).mem[2]

\* the BMI2 lowering has run for a count in counts
Bmi2ShiftDone(counts) == phase = "done" /\ func \in NzFuncs /\ cap_bmi2 /\ inp.q \in counts

\* every count the processor takes from the low bits of the count register
AllCounts == 0 .. (WordBits - 1)

\* C14 as stated: for every count, 0 included, the BMI2 lowering of shr,
\* signed shr and shl writes the destination limbs of the baseline lowering.
Bmi2ShiftAsBaseline ==
    Bmi2ShiftDone(AllCounts) =>
        /\ AsBaseline(func, inp, res_sysv)
        /\ AsBaseline(func, inp, res_inline)

\* C14: for every count but 0, the BMI2 lowering of shr, signed shr and shl
\* writes the destination limbs of the baseline lowering.
Bmi2ShiftAsBaselineNonzero ==
    Bmi2ShiftDone(AllCounts \ {0}) =>
        /\ AsBaseline(func, inp, res_sysv)
        /\ AsBaseline(func, inp, res_inline)

\* the BMI2 lowering has shifted the widest number by the largest count, and
\* bits of a donor limb went into the limb below
WitnessBmi2ShiftAsBaselineNonzero ==
    /\ Bmi2ShiftDone({WordBits - 1})
    /\ func = "shr_nz"
    /\ limbs = MaxN
    /\ res_sysv.fault = ""
    /\ res_sysv.mem[2] # inp.a
    /\ res_sysv.mem[2][1] # ShrVal(inp.a[1], inp.q)

\* ------------------------------------------------ the pool's two lists

\* the free list of e is sorted and holds no index twice
FreeListIncreasing(e) ==
    \A i \in 1 .. (Len(e.free_indices) - 1) : e.free_indices[i] < e.free_indices[i + 1]

\* C15: while a routine is generated the free list of the pool is strictly
\* increasing in every state, after every untake too, and the written set
\* never loses an element.
PoolListsKept ==
    /\ [](phase = "generate" => FreeListIncreasing(emitter))
    /\ [][emitter.writes \subseteq emitter'.writes]_vars

\* mul: a register a helper took is free again, below another free one, and
\* writes have been recorded
WitnessPoolListsKept ==
    /\ phase = "generate"
    /\ func = "mul"
    /\ emitter.writes # {}
    /\ \E v \in DOMAIN frame \ {RegCL} :
           /\ IsRealReg(frame[v])
           /\ frame[v].index \in FreeSet(emitter)
           /\ \E j \in FreeSet(emitter) : j > frame[v].index

\* ------------------------------------------- the stores of a word shift

ShiftWordsFuncs == {"shr_words", "S_shr_words", "shl_words"}

\* line ins stores to limb i of the array register reg points to
StoresTo(ins, reg, i) ==
    \E o \in Destinations(ins) : o.k = "mem" /\ o.reg = reg /\ o.off = i

\* how many lines of out store to limb i of the array reg points to
StoreCount(out, reg, i) == Cardinality({ j \in 1 .. Len(out) : StoresTo(out[j], reg, i) })

\* FUNC_shift_words has returned
ShiftWordsReturned == TemplateReturned /\ func \in ShiftWordsFuncs

\* the limbs are kept in registers (n <= m), not shifted in place
InRegisters == limbs <= shift_words_m(IsInline(emitter))

\* C16 as stated: when FUNC_shift_words finishes, every destination limb
\* has been stored to exactly once, under either strategy.
StoredExactlyOnce ==
    ShiftWordsReturned =>
        \A i \in Range0(limbs) : StoreCount(emitter.out, frame["reg_c"], i) = 1

\* C16: FUNC_shift_words never fails its assertion, and when it finishes
\* every destination limb has been stored to: exactly once when the limbs
\* are kept in registers, at least once when they are shifted in place.
StoredAtLeastOnce ==
    /\ (phase = "generate" /\ func \in ShiftWordsFuncs) => emitter.err = ""
    /\ ShiftWordsReturned =>
           \A i \in Range0(limbs) :
               /\ StoreCount(emitter.out, frame["reg_c"], i) >= 1
               /\ InRegisters => StoreCount(emitter.out, frame["reg_c"], i) = 1

\* a word shift in place: the lowest limb is stored to by every pass, the
\* highest by the first pass alone
WitnessStoredAtLeastOnce ==
    /\ ShiftWordsReturned
    /\ func = "shr_words"
    /\ ~ InRegisters
    /\ limbs = DumbShiftMaxN
    /\ StoreCount(emitter.out, frame["reg_c"], 0) = limbs
    /\ StoreCount(emitter.out, frame["reg_c"], limbs - 1) = 1

\* ------------------------------------------ the passes of a word shift

\* the direction FUNC_shift_words is given for routine name
DirectionOf(name) == IF name = "shl_words" THEN "left" ELSE "right"

\* what shift_words_auto does for the routine being generated
AutoEvents == shift_words_auto("reg_b", limbs, DirectionOf(func))

\* the positions in evs of the lines that open a pass
Gates(evs) == { k \in 1 .. Len(evs) : evs[k].ev = "emit" }

\* the lines of out with an operation in ops
LinesWith(out, ops) == { j \in 1 .. Len(out) : out[j].op \in ops }

Jumps == {"jnc", "label"}

\* FUNC_shift_words has returned for a width that takes the dumb sequence
DumbReturned == ShiftWordsReturned /\ limbs <= DumbShiftMaxN

\* every assignment of evs is a cmova by one limb toward the low end (right)
\* or the high end (left), or of the fill value
ByOneLimb(evs, direction) ==
    \A k \in (1 .. Len(evs)) \ Gates(evs) :
        /\ evs[k].cond = "a"
        /\ evs[k].src_i \in {0 - 1, IF direction = "left" THEN evs[k].dst_i - 1 ELSE evs[k].dst_i + 1}

\* C17 as stated: for n <= 8 the word-shift sequence is exactly n - 1
\* conditional-move passes by one limb, each gated by a comparison, and has
\* no jump.
DumbPassesShort ==
    DumbReturned =>
        /\ Cardinality(Gates(AutoEvents)) = limbs - 1
        /\ ByOneLimb(AutoEvents, DirectionOf(func))
        /\ LinesWith(emitter.out, Jumps) = {}

\* C17: for n <= 8 the word-shift sequence is exactly n conditional-move
\* passes by one limb, pass 0 gated by testq of the amount with itself and
\* pass i by cmpq of the amount with i, and has no jump.
DumbPasses ==
    DumbReturned =>
        /\ Cardinality(Gates(AutoEvents)) = limbs
        /\ \A k \in Gates(AutoEvents) :
               AutoEvents[k].ins =
                   DumbCompare("reg_b", Cardinality({ j \in Gates(AutoEvents) : j < k }))
        /\ ByOneLimb(AutoEvents, DirectionOf(func))
        /\ Cardinality(LinesWith(emitter.out, {"testq", "cmpq"})) = limbs
        /\ LinesWith(emitter.out, Jumps) = {}

\* the widest dumb left shift, kept in registers: n passes, the pass after
\* gate i with n - i conditional moves
WitnessDumbPasses ==
    /\ DumbReturned
    /\ func = "shl_words"
    /\ limbs = DumbShiftMaxN
    /\ InRegisters
    /\ Cardinality(LinesWith(emitter.out, {"cmovaq"})) = (limbs * (limbs + 1)) \div 2
    /\ Cardinality(LinesWith(emitter.out, {"cmpq"})) = limbs - 1

\* ------------------------------------------- the early exit of aors_q

ConstantTimeQ == {"add_q", "sub_q"}

LeakyQ == {"add_q_leaky", "sub_q_leaky"}

\* the positions of the jumps and of the labels in out
JumpsIn(out) == LinesWith(out, {"jnc"})

LabelsIn(out) == LinesWith(out, {"label"})

\* line ins is the adcq / sbbq $0 of a limb other than the first and the last
MiddleLimb(ins, n) ==
    /\ ins.op \in {"adcq", "sbbq"}
    /\ ins.a = Zero
    /\ ins.b.k = "mem"
    /\ ins.b.off \in 1 .. (n - 2)

\* the jumps of out go to the one label, which stands right before the
\* last line, the sbbq of the return register
OneExit(out) ==
    /\ LabelsIn(out) = {Len(out) - 1}
    /\ out[Len(out)].op = "sbbq"
    /\ \A j \in JumpsIn(out) : out[j].a = out[Len(out) - 1].a

\* C18: add_q and sub_q have neither jump nor label.  The leaky variants
\* have jumps only for n > 2, each right after the line of a limb that is
\* neither the first nor the last and each to the one label right before the
\* final sbbq; the label is emitted exactly when a jump is.
EarlyExitShape ==
    TemplateReturned =>
        /\ func \in ConstantTimeQ =>
               JumpsIn(emitter.out) = {} /\ LabelsIn(emitter.out) = {}
        /\ func \in LeakyQ =>
               /\ JumpsIn(emitter.out) # {} => limbs > 2
               /\ \A j \in JumpsIn(emitter.out) : j > 2 /\ MiddleLimb(emitter.out[j - 1], limbs)
               /\ (LabelsIn(emitter.out) # {}) = (JumpsIn(emitter.out) # {})
               /\ JumpsIn(emitter.out) # {} => OneExit(emitter.out)

\* the widest leaky routine: a jump after every limb but the first and the
\* last
WitnessEarlyExitShape ==
    /\ TemplateReturned
    /\ func = "sub_q_leaky"
    /\ limbs = MaxN
    /\ Cardinality(JumpsIn(emitter.out)) = limbs - 2
    /\ OneExit(emitter.out)

\* ------------------------------------ the carry register of mul_aux_bmi2

\* the variable that holds the carry register when mul_aux_bmi2 is entered
CarryOnEntry(reg_carry) ==
    IF reg_carry = None THEN "mul_aux_bmi2.reg_carry" ELSE reg_carry

\* the variables whose registers the statements stmts release, one entry
\* for each release
Released(stmts) == SelectSeq(stmts, LAMBDA st : st.do = "untake")

\* the two ways mul_aux_bmi2 is called with drop_last_carry false: by
\* FUNC_mul_q_bmi2 with the return register, by long_mul_step_bmi2 with none
CarryArgs == {"reg_result", None}

\* mul_aux_bmi2 at n limbs hands back the variable of the carry register and
\* releases reg_lo and the first reg_hi, each once, and nothing else
CarryHandedBack(n, undef_from, reg_carry) ==
    LET h == mul_aux_bmi2(n, undef_from, PointerReg("reg_src", 0), "reg_m",
                          PointerReg("reg_dst", 0), Zero, FALSE, reg_carry)
    IN  /\ h.r = CarryOnEntry(reg_carry)
        /\ Len(Released(h.stmts)) = 2
        /\ {Released(h.stmts)[i].var : i \in 1 .. 2} =
               {"mul_aux_bmi2.reg_lo", "mul_aux_bmi2.reg_hi"}

MulQBmi2 == phase = "generate" /\ func = "mul_q" /\ cap_bmi2

\* C19: with drop_last_carry false mul_aux_bmi2 returns the register bound
\* to reg_carry on entry, releases reg_lo and the first reg_hi and no other
\* register; the assertion of FUNC_mul_q_bmi2 never fails, and when the
\* template has returned reg_lo and reg_hi are free and the carry register,
\* the return register, is not.
CarryRegisterKept ==
    /\ phase = "generate" =>
           \A rc \in CarryArgs : \A u \in {0, limbs} : CarryHandedBack(limbs, u, rc)
    /\ MulQBmi2 => emitter.err # "AssertionError"
    /\ MulQBmi2 /\ TemplateReturned =>
           /\ frame["mul_aux_bmi2.reg_lo"].index \in FreeSet(emitter)
           /\ frame["mul_aux_bmi2.reg_hi"].index \in FreeSet(emitter)
           /\ frame["mul_aux_bmi2.reg_lo"] # frame["mul_aux_bmi2.reg_hi"]
           /\ frame["reg_result"].real => frame["reg_result"].index \notin FreeSet(emitter)
           /\ limbs > 1 =>
                  emitter.out[Len(emitter.out)] =
                      Ins2("adcq", Zero, OpReg(frame["reg_result"]))

\* mul_q with BMI2 at an odd width, where the registers are exchanged before
\* the loop, has returned past its assertion
WitnessCarryRegisterKept ==
    /\ MulQBmi2 /\ TemplateReturned
    /\ limbs = MaxN /\ limbs % 2 = 1
    /\ frame["mul_aux_bmi2.reg_hi"].index \in FreeSet(emitter)
    /\ emitter.out[Len(emitter.out)].op = "adcq"

\* ------------------------------------- the operands and the clobber list

\* the constraints the closed asm statement prints, outputs and inputs
Operands(t) ==
    {t.outputs[i] : i \in 1 .. Len(t.outputs)} \cup {t.inputs[i] : i \in 1 .. Len(t.inputs)}

\* C20: in the closed asm statement every operand whose forced register is
\* in the written set of the pool has the early-clobber mark, and no forced
\* register of an operand is in the clobber list.
ForcedOperandsMarked ==
    phase = "generate" /\ tail.printed /\ IsInline(emitter) =>
        \A o \in Operands(tail) :
            o.reg_name # "" =>
                /\ o.reg_name \in clobbers(emitter) => o.early
                /\ o.reg_name \notin tail.clobbers

\* ----------------------------------------------- the labels are distinct

\* text holds the characters % = in a row, and not as the end of %%
HasPlaceholder(text) ==
    \E i \in 1 .. (Len(text) - 1) :
        /\ text[i] = "%" /\ text[i + 1] = "="
        /\ i > 1 => text[i - 1] # "%"

\* C21: the labels the standalone backend returns in one process are
\* pairwise distinct, across emitters too, their numbers strictly
\* increasing; the labels one inline emitter returns are pairwise distinct
\* and each prints with the placeholder %=.
LabelsDistinct ==
    phase = "generate" =>
        \A j \in 1 .. Len(process.labels) :
            /\ \A i \in 1 .. (j - 1) :
                   IF IsInline(emitter)
                   THEN process.labels[i].emitter = process.labels[j].emitter =>
                            process.labels[i].text # process.labels[j].text
                   ELSE /\ process.labels[i].text # process.labels[j].text
                        /\ process.labels[i].text.number < process.labels[j].text.number
            /\ IsInline(emitter) =>
                   HasPlaceholder(inline_emit_text(process.labels[j].text.prefix))

\* the standalone backend has returned labels from three emitters
WitnessLabelsDistinct ==
    /\ phase = "generate" /\ ~ IsInline(emitter)
    /\ Len(process.labels) = MaxLabels
    /\ {process.labels[i].emitter : i \in 1 .. MaxLabels} = 1 .. MaxEmitters

\* one inline emitter has returned several labels, and another one as many
WitnessLabelsDistinctInline ==
    /\ phase = "generate" /\ IsInline(emitter)
    /\ Len(process.labels) = 4
    /\ process.labels[1].emitter = process.labels[2].emitter
    /\ process.labels[3].emitter = process.labels[4].emitter
    /\ process.labels[1].text = process.labels[3].text

\* ------------------------------------- the incoming arguments are kept

\* the registers a line writes, by name
LineWrites(ins) ==
    { RegName(o.reg) : o \in { x \in Destinations(ins) : x.k = "reg" } }
    \cup ImplicitWrites(ins.op)

\* a register holds no incoming argument
NoArg == 0 - 1

\* The incoming argument whose value register reg_name holds after the first
\* k lines of out: at entry the SysV argument registers hold theirs, a movq
\* between registers hands the value on, any other write ends it.
RECURSIVE Holds(_, _, _)
Holds(out, k, reg_name) ==
    LET ws == { j \in 1 .. k : reg_name \in LineWrites(out[j]) }
    IN  IF ws = {}
        THEN IF reg_name \in SeqToSet(SYSV_ABI_ARG_REGS)
             THEN index_by_name(SYSV_ABI_ARG_REGS, reg_name)
             ELSE NoArg
        ELSE LET j == CHOOSE x \in ws : \A y \in ws : y <= x
             IN  IF out[j].op = "movq" /\ out[j].a.k = "reg" /\ out[j].b.k = "reg"
                 THEN Holds(out, j - 1, RegName(out[j].a.reg))
                 ELSE NoArg

\* the take_arg_reg calls the callback has yet to make
ArgsWaiting == { todo[i] : i \in { j \in 1 .. Len(todo) : todo[j].do = "take_arg_reg" } }

\* the callback of a standalone routine is running
SysvGenerating == phase = "generate" /\ ~ IsInline(emitter) /\ emitter.err = ""

\* the register arg_map names for every argument not yet taken holds that
\* argument and is free in the pool
WaitingArgsKept ==
    SysvGenerating =>
        \A st \in ArgsWaiting :
            /\ Holds(emitter.out, Len(emitter.out), emitter.arg_map[st.index + 1]) = st.index
            /\ index_by_name(ALL_REGS, emitter.arg_map[st.index + 1]) \in FreeSet(emitter)

\* the register take_arg_reg(index) returns holds argument index
TakenArgArrives ==
    SysvGenerating /\ todo # << >> /\ Head(todo).do = "take_arg_reg" /\ emitter'.err = "" =>
        Holds(emitter'.out, Len(emitter'.out), RegName(frame'[Head(todo).var])) = Head(todo).index

\* C22: under the SysV backend, from the entry of a routine until
\* take_arg_reg(i) returns, the register holding incoming argument i is
\* written by no emitted line and is never handed out by the pool, and the
\* register take_arg_reg(i) returns holds the caller's argument i.
ArgsReachTemplate == [] WaitingArgsKept /\ [][TakenArgArrives]_vars

\* mul_q with BMI2: set_nargs has moved argument 2 out of the fixed rdx and
\* released the scratch register, and take_arg_reg(2) has returned it
WitnessArgsReachTemplate ==
    /\ SysvGenerating /\ func = "mul_q" /\ cap_bmi2
    /\ ArgsWaiting = {}
    /\ "reg_dst" \in DOMAIN frame
    /\ RegName(frame["reg_dst"]) \notin SeqToSet(SYSV_ABI_ARG_REGS)
    /\ Holds(emitter.out, 2, RegName(frame["reg_dst"])) = 2
    /\ RegName(frame["reg_m"]) = "rdx"

\* --------------------------------- the callee-saved registers stay out

\* the pool indices of rbx, r12, r13, r14, r15
CalleeSaved == { index_by_name(ALL_REGS, CALLEE_SAVED_REGS[i]) : i \in 1 .. Len(CALLEE_SAVED_REGS) }

\* the variables of the callbacks that hold a label
LabelVars == {"label_done"}

\* the variables of the callback that hold a register
RegisterVars == DOMAIN frame \ LabelVars

\* the registers the operands of the lines of out name
NamedInLines(out) ==
    MentionedRegs(out) \cup UNION { ImplicitWrites(out[i].op) : i \in 1 .. Len(out) }

\* C23: while a routine is generated, for either backend, no callee-saved
\* register is in the free list of the pool, held by the callback, in the
\* written set or named by an emitted line.
CalleeSavedUntouched ==
    phase = "generate" =>
        /\ FreeSet(emitter) \cap CalleeSaved = {}
        /\ emitter.writes \cap CalleeSaved = {}
        /\ \A v \in RegisterVars : IsRealReg(frame[v]) => frame[v].index \notin CalleeSaved
        /\ NamedInLines(emitter.out) \cap SeqToSet(CALLEE_SAVED_REGS) = {}
        /\ clobbers(emitter) \cap SeqToSet(CALLEE_SAVED_REGS) = {}

\* a standalone routine has taken every register of the pool
WitnessCalleeSavedUntouched ==
    /\ phase = "generate" /\ ~ IsInline(emitter)
    /\ emitter.free_indices = << >>
    /\ emitter.writes # {}
    /\ emitter.out # << >>

\* ------------------------------- the asm statement fits the prototype

\* the callback of an inline routine is running or has returned
InlineGenerating == phase = "generate" /\ IsInline(emitter)

\* the indices of the take_arg_reg calls yet to be made
IndicesWaiting == { st.index : st \in ArgsWaiting }

\* the tail has an output operand [ret]
HasRetOperand(t) == \E i \in 1 .. Len(t.outputs) : t.outputs[i].keyword = "ret"

\* C24: under the inline backend every template takes the argument indices
\* 0, 1, ... in order and without a gap, as many as its prototype has
\* parameters, and the operand [ret] is among the outputs exactly when the
\* prototype does not return void.
FitsPrototype ==
    InlineGenerating =>
        /\ emitter.err # "ValueError: wrong order of arg indices"
        /\ emitter.err = "" =>
               IndicesWaiting = Len(emitter.args) .. (Len(Protos[func].params) - 1)
        /\ TemplateReturned => Len(emitter.args) = Len(Protos[func].params)
        /\ tail.printed => (HasRetOperand(tail) = (Protos[func].ret # "void"))

\* the asm statement of mul, which returns void, is printed with its three
\* arguments and no operand [ret]
WitnessFitsPrototype ==
    /\ InlineGenerating /\ tail.printed
    /\ func = "mul" /\ limbs = MaxN
    /\ Len(emitter.args) = 3
    /\ ~ HasRetOperand(tail)
    /\ Len(tail.outputs) + Len(tail.inputs) >= 3

====
